---- MODULE Spec2Model ----
(***************************************************************************)
(* Model of the flow-analysis core of flowise_mcp (src/flowise_mcp/utils.py) *)
(* Text is a sequence of one-character strings, so that lower-casing and    *)
(* substring search are computed and not assumed.                           *)
(***************************************************************************)
EXTENDS Integers, Sequences, FiniteSets, TLC

VARIABLES
    pc,               \* position of the caller: what has been called so far
    node_type,        \* argument of categorize_node
    category,         \* value returned by categorize_node
    arg_flow,         \* the flow record given to analyze_flow_data
    arg_goal,         \* the improvement goal given to analyze_flow_data
    outcome,          \* what analyze_flow_data returned or raised
    arg_format,       \* the format given to format_analysis
    output,           \* the lines format_analysis returned
    heap,             \* the objects that concurrent analyses can reach, by address
    task,             \* the locals and the position of each concurrent analysis
    call,             \* the server tool that was invoked, with its arguments
    requests,         \* the requests sent to the remote service so far
    reply,            \* what the remote service did with the request
    result            \* what the tool returned or raised

\* the variables of one analysis, of the concurrent analyses, of a tool call
analysisVars == <<node_type, category, arg_flow, arg_goal, outcome, arg_format, output>>
taskVars == <<heap, task>>
toolVars == <<call, requests, reply, result>>

vars == <<pc, analysisVars, taskVars, toolVars>>

\* value of a variable no call has set yet
Unset == "unset"

(***************************************************************************)
(* Text                                                                    *)
(***************************************************************************)
UpperChars == <<"A","B","C","D","E","F","G","H","I","J","K","L","M","N","O","P","Q","R","S","T","U","V","W","X","Y","Z">>
LowerChars == <<"a","b","c","d","e","f","g","h","i","j","k","l","m","n","o","p","q","r","s","t","u","v","w","x","y","z">>

\* str.lower() on one character
LowerChar(c) ==
    IF \E i \in 1..Len(UpperChars) : UpperChars[i] = c
    THEN LowerChars[CHOOSE i \in 1..Len(UpperChars) : UpperChars[i] = c]
    ELSE c

\* str.upper() on one character
UpperChar(c) ==
    IF \E i \in 1..Len(LowerChars) : LowerChars[i] = c
    THEN UpperChars[CHOOSE i \in 1..Len(LowerChars) : LowerChars[i] = c]
    ELSE c

\* str.lower()
Lower(s) == [i \in 1..Len(s) |-> LowerChar(s[i])]

\* str.upper()
Upper(s) == [i \in 1..Len(s) |-> UpperChar(s[i])]

\* the Python expression  kw in s  on two texts
Contains(kw, s) ==
    \E i \in 1..(Len(s) - Len(kw) + 1) : SubSeq(s, i, i + Len(kw) - 1) = kw

(***************************************************************************)
(* categorize_node                                                         *)
(***************************************************************************)
categories_agent_last ==
   << [keywords |-> <<<<"l","l","m">>,
                      <<"g","p","t">>,
                      <<"c","l","a","u","d","e">>,
                      <<"a","n","t","h","r","o","p","i","c">>,
                      <<"o","p","e","n","a","i">>,
                      <<"g","e","m","i","n","i">>,
                      <<"m","i","s","t","r","a","l">>>>,
       category |-> "llm"],
      [keywords |-> <<<<"m","e","m","o","r","y">>,
                      <<"b","u","f","f","e","r">>,
                      <<"w","i","n","d","o","w">>>>,
       category |-> "memory"],
      [keywords |-> <<<<"v","e","c","t","o","r">>,
                      <<"c","h","r","o","m","a">>,
                      <<"p","i","n","e","c","o","n","e">>,
                      <<"f","a","i","s","s">>,
                      <<"w","e","a","v","i","a","t","e">>,
                      <<"q","d","r","a","n","t">>,
                      <<"m","i","l","v","u","s">>>>,
       category |-> "vector_store"],
      [keywords |-> <<<<"r","e","t","r","i","e","v","e","r">>,
                      <<"r","e","t","r","i","e","v","a","l">>>>,
       category |-> "retriever"],
      [keywords |-> <<<<"l","o","a","d","e","r">>,
                      <<"d","o","c","u","m","e","n","t">>,
                      <<"p","d","f">>,
                      <<"c","s","v">>>>,
       category |-> "document_loader"],
      [keywords |-> <<<<"e","m","b","e","d">>,
                      <<"e","m","b","e","d","d","i","n","g">>>>,
       category |-> "embeddings"],
      [keywords |-> <<<<"t","o","o","l">>,
                      <<"s","e","r","p">>,
                      <<"c","a","l","c","u","l","a","t","o","r">>,
                      <<"r","e","q","u","e","s","t">>,
                      <<"b","r","o","w","s","e","r">>>>,
       category |-> "tool"],
      [keywords |-> <<<<"p","r","o","m","p","t">>,
                      <<"t","e","m","p","l","a","t","e">>>>,
       category |-> "prompt"],
      [keywords |-> <<<<"c","h","a","i","n">>,
                      <<"s","e","q","u","e","n","t","i","a","l">>>>,
       category |-> "chain"],
      [keywords |-> <<<<"s","p","l","i","t","t","e","r">>,
                      <<"c","h","u","n","k">>>>,
       category |-> "text_splitter"],
      [keywords |-> <<<<"m","o","d","e","r","a","t","i","o","n">>>>,
       category |-> "moderation"],
      [keywords |-> <<<<"c","a","c","h","e">>>>,
       category |-> "cache"],
      [keywords |-> <<<<"p","a","r","s","e","r">>,
                      <<"o","u","t","p","u","t">>>>,
       category |-> "output_parser"],
      [keywords |-> <<<<"a","g","e","n","t">>,
                      <<"s","u","p","e","r","v","i","s","o","r">>,
                      <<"w","o","r","k","e","r">>>>,
       category |-> "agent"] >>

\* the rule table of categorize_node
categories ==
   << [keywords |-> <<<<"l","l","m">>,
                      <<"g","p","t">>,
                      <<"c","l","a","u","d","e">>,
                      <<"a","n","t","h","r","o","p","i","c">>,
                      <<"o","p","e","n","a","i">>,
                      <<"g","e","m","i","n","i">>,
                      <<"m","i","s","t","r","a","l">>>>,
       category |-> "llm"],
      [keywords |-> <<<<"m","e","m","o","r","y">>,
                      <<"b","u","f","f","e","r">>,
                      <<"w","i","n","d","o","w">>>>,
       category |-> "memory"],
      [keywords |-> <<<<"v","e","c","t","o","r">>,
                      <<"c","h","r","o","m","a">>,
                      <<"p","i","n","e","c","o","n","e">>,
                      <<"f","a","i","s","s">>,
                      <<"w","e","a","v","i","a","t","e">>,
                      <<"q","d","r","a","n","t">>,
                      <<"m","i","l","v","u","s">>>>,
       category |-> "vector_store"],
      [keywords |-> <<<<"r","e","t","r","i","e","v","e","r">>,
                      <<"r","e","t","r","i","e","v","a","l">>>>,
       category |-> "retriever"],
      [keywords |-> <<<<"l","o","a","d","e","r">>,
                      <<"d","o","c","u","m","e","n","t">>,
                      <<"p","d","f">>,
                      <<"c","s","v">>>>,
       category |-> "document_loader"],
      [keywords |-> <<<<"e","m","b","e","d">>,
                      <<"e","m","b","e","d","d","i","n","g">>>>,
       category |-> "embeddings"],
      [keywords |-> <<<<"t","o","o","l">>,
                      <<"s","e","r","p">>,
                      <<"c","a","l","c","u","l","a","t","o","r">>,
                      <<"r","e","q","u","e","s","t">>,
                      <<"b","r","o","w","s","e","r">>>>,
       category |-> "tool"],
      [keywords |-> <<<<"p","r","o","m","p","t">>,
                      <<"t","e","m","p","l","a","t","e">>>>,
       category |-> "prompt"],
      [keywords |-> <<<<"a","g","e","n","t">>,
                      <<"s","u","p","e","r","v","i","s","o","r">>,
                      <<"w","o","r","k","e","r">>>>,
       category |-> "agent"],
      [keywords |-> <<<<"c","h","a","i","n">>,
                      <<"s","e","q","u","e","n","t","i","a","l">>>>,
       category |-> "chain"],
      [keywords |-> <<<<"s","p","l","i","t","t","e","r">>,
                      <<"c","h","u","n","k">>>>,
       category |-> "text_splitter"],
      [keywords |-> <<<<"m","o","d","e","r","a","t","i","o","n">>>>,
       category |-> "moderation"],
      [keywords |-> <<<<"c","a","c","h","e">>>>,
       category |-> "cache"],
      [keywords |-> <<<<"p","a","r","s","e","r">>,
                      <<"o","u","t","p","u","t">>>>,
       category |-> "output_parser"] >>

\* any(kw in node_lower for kw in keywords)
AnyKeyword(keywords, node_lower) ==
    \E k \in 1..Len(keywords) : Contains(keywords[k], node_lower)

RECURSIVE FirstMatch_last(_, _)
FirstMatch_last(node_lower, i) ==
    IF i > Len(categories) THEN "other"
    ELSE LET rest == FirstMatch_last(node_lower, i + 1)
         IN  IF rest # "other" THEN rest
             ELSE IF AnyKeyword(categories[i].keywords, node_lower)
                  THEN categories[i].category
                  ELSE "other"

\* the loop  for keywords, category in categories: ... return category
RECURSIVE FirstMatch(_, _)
FirstMatch(node_lower, i) ==
    IF i > Len(categories) THEN "other"
    ELSE IF AnyKeyword(categories[i].keywords, node_lower)
         THEN categories[i].category
         ELSE FirstMatch(node_lower, i + 1)

categorize_node_nolower(type_text) == FirstMatch(type_text, 1)

categorize_node(type_text) == FirstMatch(Lower(type_text), 1)

(***************************************************************************)
(* Inputs of the classifier: type texts made of up to MaxFrags fragments   *)
(***************************************************************************)
MaxFrags == 2

Fragments ==
   { <<"G","P","T">>,
     <<"g","p">>,
     <<"t">>,
     <<"-">>,
     <<"M","e","m","o","r","y">>,
     <<"F","a","i","s","s">>,
     <<"R","e","t","r","i","e","v","e","r">>,
     <<"P","D","F">>,
     <<"E","m","b","e","d">>,
     <<"T","o","o","l","A","g","e","n","t">>,
     <<"P","r","o","m","p","t">>,
     <<"A","g","e","n","t">>,
     <<"C","h","a","i","n">>,
     <<"C","h","u","n","k">>,
     <<"M","o","d","e","r","a","t","i","o","n">>,
     <<"C","a","c","h","e">>,
     <<"O","u","t","p","u","t">> }

RECURSIVE Concat(_)
Concat(ss) == IF ss = <<>> THEN <<>> ELSE Head(ss) \o Concat(Tail(ss))

TypeTexts ==
    { Concat(fs) : fs \in UNION { [1..n -> Fragments] : n \in 0..MaxFrags } }

\* the same text in another letter case
SwapChar(c) == IF LowerChar(c) # c THEN LowerChar(c) ELSE UpperChar(c)

Recased(s, how) ==
    CASE how = "lower" -> Lower(s)
      [] how = "upper" -> Upper(s)
      [] OTHER         -> [i \in 1..Len(s) |-> SwapChar(s[i])]

RecasedAt(s, at) == [i \in 1..Len(s) |-> IF i = at THEN SwapChar(s[i]) ELSE s[i]]

Recasings(s) ==
    { Recased(s, how) : how \in {"lower", "upper", "swap"} }
        \cup { RecasedAt(s, at) : at \in 1..Len(s) }

(***************************************************************************)
(* Specification of the classifier alone                                   *)
(***************************************************************************)
InitCat ==
    /\ pc = "start"
    /\ heap = Unset /\ task = Unset
    /\ call = Unset /\ requests = Unset /\ reply = Unset /\ result = Unset
    /\ node_type \in TypeTexts
    /\ category = Unset
    /\ arg_flow = Unset /\ arg_goal = Unset
    /\ outcome = Unset /\ arg_format = Unset /\ output = Unset

\* a call categorize_node(node_type)
Categorize ==
    /\ pc = "start"
    /\ category' = categorize_node(node_type)
    /\ pc' = "categorized"
    /\ UNCHANGED <<node_type, arg_flow, arg_goal, outcome, arg_format, output>>
    /\ UNCHANGED <<taskVars, toolVars>>

\* a second call, on the same text in another letter case
CategorizeRecased ==
    /\ pc = "categorized"
    /\ \E other \in Recasings(node_type) :
          /\ node_type' = other
          /\ category' = categorize_node(other)
    /\ pc' = "recased"
    /\ UNCHANGED <<arg_flow, arg_goal, outcome, arg_format, output>>
    /\ UNCHANGED <<taskVars, toolVars>>

NextCat == Categorize \/ CategorizeRecased

SpecCat == InitCat /\ [][NextCat]_vars

(***************************************************************************)
(* JSON values and Python exceptions                                       *)
(***************************************************************************)
\* a str of characters
JStr(s) == [t |-> "str", v |-> s]
\* a str that is the JSON encoding of the document doc
JText(doc) == [t |-> "json_text", v |-> doc]
JNull == [t |-> "null", v |-> {}]
JBool(b) == [t |-> "bool", v |-> b]
JNum(n) == [t |-> "num", v |-> n]
JList(xs) == [t |-> "list", v |-> xs]
\* a dict: a function from the keys present to their values
JDict(f) == [t |-> "dict", v |-> f]

EmptyMap == [k \in {} |-> JNull]

\* isinstance(x, str)
IsStr(x) == x.t \in {"str", "json_text"}
IsDict(x) == x.t = "dict"

\* d.get(key, default) on a dict d
Get(d, key, default) == IF key \in DOMAIN d.v THEN d.v[key] ELSE default

\* truth value of a Python object
Truthy(x) ==
    CASE x.t = "null" -> FALSE
      [] x.t = "bool" -> x.v
      [] x.t = "num"  -> x.v # 0
      [] x.t = "json_text" -> TRUE
      [] x.t = "dict" -> DOMAIN x.v # {}
      [] OTHER -> Len(x.v) > 0

\* outcome of a call: a returned value or a raised exception
Return(x) == [exc |-> "none", val |-> x]
Raise(e) == [exc |-> e, val |-> {}]

(***************************************************************************)
(* JSON text as json.dumps writes it and json.loads reads it: a sequence   *)
(* of tokens.  A str of the analysis is a run of characters (JStr), a      *)
(* literal of the source (JLit) or an f-string (JFStr) of such parts.      *)
(***************************************************************************)
JLit(s) == [t |-> "lit", v |-> s]
JFStr(parts) == [t |-> "fstr", v |-> parts]
JTokens(toks) == [t |-> "json_tokens", v |-> toks]

\* a punctuation or literal-name token, a newline with its indentation, a
\* number and a string token
Tok(kind) == [k |-> kind, x |-> 0]
Ws(level) == [k |-> "ws", x |-> 2 * level]
NumberToken(n) == [k |-> "number", x |-> n]
StringToken(form, content) == [k |-> "string", x |-> [t |-> form, v |-> content]]

Quote == "\""
Backslash == "\\"

\* the characters between the quotes of a JSON string: quotation mark and
\* backslash are written with a backslash before them
RECURSIVE EscapeFrom(_, _)
EscapeFrom(s, i) ==
    IF i > Len(s) THEN <<>>
    ELSE (IF s[i] \in {Quote, Backslash} THEN <<Backslash, s[i]>> ELSE <<s[i]>>)
         \o EscapeFrom(s, i + 1)

Escape_none(s) == s

Escape(s) == EscapeFrom(s, 1)

\* the characters between the quotes end at the first bare quotation mark:
\* a run that holds one, or ends in a lone backslash, is no string
RECURSIVE WellQuotedFrom(_, _)
WellQuotedFrom(s, i) ==
    IF i > Len(s) THEN TRUE
    ELSE IF s[i] = Quote THEN FALSE
    ELSE IF s[i] = Backslash
         THEN i < Len(s) /\ s[i + 1] \in {Quote, Backslash} /\ WellQuotedFrom(s, i + 2)
    ELSE WellQuotedFrom(s, i + 1)

\* the characters an escaped run stands for
RECURSIVE UnescapeFrom(_, _)
UnescapeFrom(s, i) ==
    IF i > Len(s) THEN <<>>
    ELSE IF s[i] = Backslash THEN <<s[i + 1]>> \o UnescapeFrom(s, i + 2)
    ELSE <<s[i]>> \o UnescapeFrom(s, i + 1)

\* the parts of an f-string that are runs of characters are escaped too
EscapePart(p) == IF p.t = "str" THEN JStr(Escape(p.v)) ELSE p
UnescapePart(p) == IF p.t = "str" THEN JStr(UnescapeFrom(p.v, 1)) ELSE p
WellQuotedPart(p) == p.t = "str" => WellQuotedFrom(p.v, 1)

\* the string token is well formed; the str it stands for
WellQuoted(tok) ==
    CASE tok.x.t = "str" -> WellQuotedFrom(tok.x.v, 1)
      [] tok.x.t = "lit" -> TRUE
      [] tok.x.t = "fstr" -> \A i \in 1..Len(tok.x.v) : WellQuotedPart(tok.x.v[i])

StringValue(tok) ==
    CASE tok.x.t = "str" -> JStr(UnescapeFrom(tok.x.v, 1))
      [] tok.x.t = "lit" -> JLit(tok.x.v)
      [] tok.x.t = "fstr" -> JFStr([i \in 1..Len(tok.x.v) |-> UnescapePart(tok.x.v[i])])

\* the result of parsing one value: the value and the index after it
Parsed(x, next) == [ok |-> TRUE, val |-> x, next |-> next]
NoParse == [ok |-> FALSE, val |-> JNull, next |-> 0]

\* the index of the first token at or after i that is no white space
RECURSIVE SkipWs(_, _)
SkipWs(toks, i) ==
    IF i <= Len(toks) /\ toks[i].k = "ws" THEN SkipWs(toks, i + 1) ELSE i

RECURSIVE ParseValue(_, _)
RECURSIVE ParseElements(_, _, _)
RECURSIVE ParseMembers(_, _, _)

\* the elements of an array from i on, acc the elements read so far
ParseElements(toks, i, acc) ==
    LET e == ParseValue(toks, i) IN
    IF ~e.ok THEN NoParse
    ELSE LET j == SkipWs(toks, e.next) IN
         IF j > Len(toks) THEN NoParse
         ELSE CASE toks[j].k = "," -> ParseElements(toks, j + 1, Append(acc, e.val))
                [] toks[j].k = "]" -> Parsed(JList(Append(acc, e.val)), j + 1)
                [] OTHER -> NoParse

\* the members of an object from i on, acc the members read so far; a key
\* read twice keeps its last value
ParseMembers(toks, i, acc) ==
    LET n == SkipWs(toks, i) IN
    IF n + 1 > Len(toks) THEN NoParse
    ELSE IF toks[n].k # "string" \/ toks[n + 1].k # ":" THEN NoParse
    ELSE IF toks[n].x.t # "lit" THEN NoParse
    ELSE LET e == ParseValue(toks, n + 2) IN
         IF ~e.ok THEN NoParse
         ELSE LET j == SkipWs(toks, e.next)
                  members == (toks[n].x.v :> e.val) @@ acc
              IN
              IF j > Len(toks) THEN NoParse
              ELSE CASE toks[j].k = "," -> ParseMembers(toks, j + 1, members)
                     [] toks[j].k = "}" -> Parsed(JDict(members), j + 1)
                     [] OTHER -> NoParse

\* one JSON value from i on
ParseValue(toks, i) ==
    LET n == SkipWs(toks, i) IN
    IF n > Len(toks) THEN NoParse
    ELSE CASE toks[n].k = "null" -> Parsed(JNull, n + 1)
           [] toks[n].k = "true" -> Parsed(JBool(TRUE), n + 1)
           [] toks[n].k = "false" -> Parsed(JBool(FALSE), n + 1)
           [] toks[n].k = "number" -> Parsed(JNum(toks[n].x), n + 1)
           [] toks[n].k = "string" ->
                 IF WellQuoted(toks[n]) THEN Parsed(StringValue(toks[n]), n + 1)
                 ELSE NoParse
           [] toks[n].k = "[" ->
                 LET j == SkipWs(toks, n + 1) IN
                 IF j <= Len(toks) /\ toks[j].k = "]" THEN Parsed(JList(<<>>), j + 1)
                 ELSE ParseElements(toks, n + 1, <<>>)
           [] toks[n].k = "{" ->
                 LET j == SkipWs(toks, n + 1) IN
                 IF j <= Len(toks) /\ toks[j].k = "}" THEN Parsed(JDict(EmptyMap), j + 1)
                 ELSE ParseMembers(toks, n + 1, EmptyMap)
           [] OTHER -> NoParse

\* a document is one value and nothing but white space after it
ParseDocument(toks) ==
    LET r == ParseValue(toks, 1) IN
    IF r.ok /\ SkipWs(toks, r.next) > Len(toks) THEN Return(r.val)
    ELSE Raise("JSONDecodeError")

\* json.loads(text): the document a JSON text encodes; the short literal
\* texts are decoded from their characters, any other run of characters
\* is no JSON document
json_loads(text) ==
    IF text.t = "json_text" THEN Return(text.v)
    ELSE IF text.t = "json_tokens" THEN ParseDocument(text.v)
    ELSE CASE text.v = <<"{","}">> -> Return(JDict(EmptyMap))
           [] text.v = <<"[","]">> -> Return(JList(<<>>))
           [] text.v = <<"n","u","l","l">> -> Return(JNull)
           [] OTHER -> Raise("JSONDecodeError")

(***************************************************************************)
(* analyze_flow_data: the node loop                                        *)
(***************************************************************************)
NodeType_name_first(node_data) ==
    Get(node_data, "name", Get(node_data, "type", JStr(<<"U","n","k","n","o","w","n">>)))

\* node_data.get("type", node_data.get("name", "Unknown"))
NodeType(node_data) ==
    Get(node_data, "type", Get(node_data, "name", JStr(<<"U","n","k","n","o","w","n">>)))

NodeLabel_name_first(node, node_data) ==
    Get(node_data, "label",
        Get(node_data, "name", Get(node, "id", JStr(<<"U","n","n","a","m","e","d">>))))

\* node_data.get("label", node.get("id", "Unnamed"))
NodeLabel(node, node_data) ==
    Get(node_data, "label", Get(node, "id", JStr(<<"U","n","n","a","m","e","d">>)))

\* the body of  for node in nodes:  the entry appended to analysis["nodes"],
\* or the AttributeError of .get / .lower on an object without it
NodeEntry(node) ==
    IF ~IsDict(node) THEN Raise("AttributeError")
    ELSE LET node_data == Get(node, "data", JDict(EmptyMap)) IN
         IF ~IsDict(node_data) THEN Raise("AttributeError")
         ELSE LET ntype == NodeType(node_data) IN
              IF ~IsStr(ntype) THEN Raise("AttributeError")
              ELSE Return([id |-> Get(node, "id", JNull),
                           type |-> ntype,
                           label |-> NodeLabel(node, node_data),
                           category |-> categorize_node(ntype.v)])

RECURSIVE NodeLoop_dedupe(_, _, _)
NodeLoop_dedupe(nodes, i, done) ==
    IF i > Len(nodes) THEN Return(done)
    ELSE LET e == NodeEntry(nodes[i]) IN
         IF e.exc # "none" THEN e
         ELSE NodeLoop_dedupe(nodes, i + 1,
                 IF \E k \in 1..Len(done) : done[k] = e.val
                 THEN done ELSE Append(done, e.val))

\* the loop over a list of raw nodes, from entry i on, done holding the
\* entries appended so far; stops at the first exception
RECURSIVE NodeLoop(_, _, _)
NodeLoop(nodes, i, done) ==
    IF i > Len(nodes) THEN Return(done)
    ELSE LET e == NodeEntry(nodes[i]) IN
         IF e.exc # "none" THEN e
         ELSE NodeLoop(nodes, i + 1, Append(done, e.val))

\* for node in nodes  over any object: a list is walked, a dict or str
\* yields its keys or characters (str objects, without .get), anything
\* else is not iterable
IterateNodes(nodes) ==
    CASE nodes.t = "list" -> NodeLoop(nodes.v, 1, <<>>)
      [] nodes.t = "dict" ->
            IF DOMAIN nodes.v = {} THEN Return(<<>>) ELSE Raise("AttributeError")
      [] nodes.t = "str" ->
            IF Len(nodes.v) = 0 THEN Return(<<>>) ELSE Raise("AttributeError")
      [] nodes.t = "json_text" -> Raise("AttributeError")
      [] OTHER -> Raise("TypeError")

\* len(x)
PyLen(x) ==
    CASE x.t \in {"list", "str"} -> Return(Len(x.v))
      [] x.t = "dict" -> Return(Cardinality(DOMAIN x.v))
      [] x.t \in {"null", "bool", "num"} -> Raise("TypeError")

(***************************************************************************)
(* analyze_flow_data: the rules                                            *)
(***************************************************************************)
\* the text of an f-string or literal, as the sequence of its parts
Text(parts) == parts

MemorySuggestion ==
    [priority |-> "high", category |-> "memory",
     title |-> "Add Conversation Memory",
     description |-> Text(<<"This flow doesn't have memory nodes. Adding memory enables conversation context across messages.">>),
     nodes_to_add |-> <<"Buffer Memory", "Zep Memory", "Redis Memory", "MongoDB Memory">>]

\* nodes_to_add of the vector store suggestion
VectorNodesToAdd_retriever_first(categories_found) ==
    <<"Chroma", "Pinecone", "FAISS", "OpenAI Embeddings">>
      \o (IF "retriever" \notin categories_found
          THEN <<"Vector Store Retriever">> ELSE <<>>)
      \o (IF "document_loader" \notin categories_found
          THEN <<"PDF Loader", "Text Loader">> ELSE <<>>)

VectorNodesToAdd(categories_found) ==
    <<"Chroma", "Pinecone", "FAISS", "OpenAI Embeddings">>
      \o (IF "document_loader" \notin categories_found
          THEN <<"PDF Loader", "Text Loader">> ELSE <<>>)
      \o (IF "retriever" \notin categories_found
          THEN <<"Vector Store Retriever">> ELSE <<>>)

VectorSuggestion(categories_found) ==
    [priority |-> "high", category |-> "rag",
     title |-> "Add Vector Store for Knowledge Base",
     description |-> Text(<<"Add a Vector Store (Pinecone, Chroma, or FAISS) with Embeddings and Document Loaders for knowledge retrieval.">>),
     nodes_to_add |-> VectorNodesToAdd(categories_found)]

ToolsSuggestion ==
    [priority |-> "medium", category |-> "tools",
     title |-> "Add Tools to Agent",
     description |-> Text(<<"This agent flow has no tools. Add tools to extend capabilities (Search, Calculator, API calls).">>),
     nodes_to_add |-> <<"SerpAPI", "Calculator", "Custom Tool", "Request Tool", "Web Browser">>]

ParserSuggestion ==
    [priority |-> "medium", category |-> "output",
     title |-> "Add Output Parser",
     description |-> Text(<<"Add an Output Parser to structure responses (JSON, CSV, structured data).">>),
     nodes_to_add |-> <<"Structured Output Parser", "JSON Output Parser", "List Output Parser">>]

PromptPractice ==
    [category |-> "prompts", title |-> "Prompt Engineering Tips",
     tips |-> <<"Use clear, specific instructions in your prompts",
                "Include examples (few-shot learning) for better results",
                "Define the output format explicitly",
                "Use system prompts to set context and behavior">>]

ModerationSuggestion ==
    [priority |-> "medium", category |-> "safety",
     title |-> "Add Input Moderation",
     description |-> Text(<<"This public flow lacks moderation. Add an Input Moderation node to filter inappropriate content.">>),
     nodes_to_add |-> <<"OpenAI Moderation", "Simple Prompt Moderation">>]

CachePractice ==
    [category |-> "performance", title |-> "Consider Adding Caching",
     tips |-> <<"Add a Cache node to store repeated LLM responses",
                "Caching reduces costs and latency significantly",
                "Redis Cache or In-Memory Cache are good options">>]

AccuracySuggestion ==
    [priority |-> "high", category |-> "accuracy",
     title |-> "Improve Response Accuracy",
     description |-> Text(<<"To improve accuracy:">>),
     tips |-> <<"Use a more capable model (GPT-4o, Claude 3.5 Sonnet)",
                "Add relevant context through RAG",
                "Improve prompts with clearer instructions",
                "Add few-shot examples",
                "Adjust temperature (lower for consistency, higher for creativity)">>]

SpeedSuggestion ==
    [priority |-> "high", category |-> "performance",
     title |-> "Improve Response Speed",
     description |-> Text(<<"To make responses faster:">>),
     tips |-> <<"Use a faster model (GPT-4o-mini, Claude 3 Haiku)",
                "Enable streaming for perceived faster responses",
                "Add caching for repeated queries",
                "Reduce context length where possible",
                "Use smaller chunk sizes in RAG">>]

\* the description interpolates improvement_goal as the caller gave it
CapabilitySuggestion_lowered(goal) ==
    [priority |-> "medium", category |-> "capability",
     title |-> "Extend Capabilities",
     description |-> Text(<<"Based on your goal '", Lower(goal), "':">>),
     tips |-> <<"Add specific tools for the functionality needed",
                "Create custom tools using the Custom Tool node",
                "Add relevant document sources via Document Loaders",
                "Consider using Agent flows for complex multi-step tasks",
                "Add conditional routing with Condition nodes">>]

CapabilitySuggestion(goal) ==
    [priority |-> "medium", category |-> "capability",
     title |-> "Extend Capabilities",
     description |-> Text(<<"Based on your goal '", goal, "':">>),
     tips |-> <<"Add specific tools for the functionality needed",
                "Create custom tools using the Custom Tool node",
                "Add relevant document sources via Document Loaders",
                "Consider using Agent flows for complex multi-step tasks",
                "Add conditional routing with Condition nodes">>]

\* analysis["suggestions"].append(s) / analysis["best_practices"].append(b)
AddSuggestion(a, s) == [a EXCEPT !.suggestions = Append(@, s)]
AddPractice(a, b) == [a EXCEPT !.best_practices = Append(@, b)]

\* The ten if-statements, each applied to the analysis built so far.
\* c holds the locals they read: categories_found, is_agent_flow,
\* goal_lower, improvement_goal and flow.
RuleMemory_llm(a, c) ==
    IF "llm" \notin c.categories_found
    THEN AddSuggestion(a, MemorySuggestion) ELSE a

RuleMemory(a, c) ==
    IF "memory" \notin c.categories_found
    THEN AddSuggestion(a, MemorySuggestion) ELSE a

RuleVector(a, c) ==
    IF Contains(<<"k","n","o","w","l","e","d","g","e">>, c.goal_lower) /\ "vector_store" \notin c.categories_found
    THEN AddSuggestion(a, VectorSuggestion(c.categories_found)) ELSE a

RuleTools(a, c) ==
    IF c.is_agent_flow /\ "tool" \notin c.categories_found
    THEN AddSuggestion(a, ToolsSuggestion) ELSE a

RuleParser_ungated(a, c) ==
    IF "output_parser" \notin c.categories_found
    THEN AddSuggestion(a, ParserSuggestion) ELSE a

RuleParser(a, c) ==
    IF Contains(<<"f","o","r","m","a","t">>, c.goal_lower) /\ "output_parser" \notin c.categories_found
    THEN AddSuggestion(a, ParserSuggestion) ELSE a

RulePrompt(a, c) ==
    IF "prompt" \in c.categories_found
    THEN AddPractice(a, PromptPractice) ELSE a

RuleModeration_present(a, c) ==
    IF "isPublic" \in DOMAIN c.flow.v /\ "moderation" \notin c.categories_found
    THEN AddSuggestion(a, ModerationSuggestion) ELSE a

RuleModeration(a, c) ==
    IF Truthy(Get(c.flow, "isPublic", JNull)) /\ "moderation" \notin c.categories_found
    THEN AddSuggestion(a, ModerationSuggestion) ELSE a

RuleCache_inverted(a, c) ==
    IF "cache" \in c.categories_found
    THEN AddPractice(a, CachePractice) ELSE a

RuleCache(a, c) ==
    IF "cache" \notin c.categories_found
    THEN AddPractice(a, CachePractice) ELSE a

RuleAccuracy(a, c) ==
    IF Contains(<<"a","c","c","u","r","a","c","y">>, c.goal_lower) \/ Contains(<<"b","e","t","t","e","r">>, c.goal_lower)
    THEN AddSuggestion(a, AccuracySuggestion) ELSE a

RuleSpeed_speedonly(a, c) ==
    IF Contains(<<"s","p","e","e","d">>, c.goal_lower)
    THEN AddSuggestion(a, SpeedSuggestion) ELSE a

RuleSpeed(a, c) ==
    IF Contains(<<"f","a","s","t">>, c.goal_lower) \/ Contains(<<"s","p","e","e","d">>, c.goal_lower)
    THEN AddSuggestion(a, SpeedSuggestion) ELSE a

RuleCapability(a, c) ==
    IF Contains(<<"h","a","n","d","l","e">>, c.goal_lower) \/ Contains(<<"s","u","p","p","o","r","t">>, c.goal_lower)
    THEN AddSuggestion(a, CapabilitySuggestion(c.improvement_goal.v)) ELSE a

ApplyRules_elif(a, c) ==
    LET m == RuleMemory(a, c) IN
    IF m # a THEN m
    ELSE RuleCapability(RuleSpeed(RuleAccuracy(RuleCache(RuleModeration(
         RulePrompt(RuleParser(RuleTools(RuleVector(a, c), c), c), c),
         c), c), c), c), c)

\* the rules in the order of the source, none skipping another
ApplyRules(a, c) ==
    RuleCapability(RuleSpeed(RuleAccuracy(RuleCache(RuleModeration(
    RulePrompt(RuleParser(RuleTools(RuleVector(RuleMemory(a, c), c), c), c), c),
    c), c), c), c), c)

(***************************************************************************)
(* analyze_flow_data                                                       *)
(***************************************************************************)
ParseIssue == "Could not parse flow data - flow may be corrupted"

\* the analysis dict as first built
NewAnalysis(flow, flow_type) ==
    [flow_name |-> Get(flow, "name", JStr(<<"U","n","k","n","o","w","n">>)),
     flow_type |-> flow_type,
     summary |-> Text(<<>>),
     nodes |-> <<>>,
     suggestions |-> <<>>,
     best_practices |-> <<>>,
     potential_issues |-> <<>>]

CorruptedAnalysis_silent(a) == a

\* the except branch: the issue is appended and the analysis returned
CorruptedAnalysis_rules(a) ==
    [a EXCEPT !.potential_issues = Append(@, ParseIssue),
              !.suggestions = <<MemorySuggestion>>]

CorruptedAnalysis(a) == [a EXCEPT !.potential_issues = Append(@, ParseIssue)]

IsAgentFlow_agentonly(flow_type) == flow_type = JStr(<<"A","G","E","N","T","F","L","O","W">>)

\* flow_type in ("AGENTFLOW", "MULTIAGENT")
IsAgentFlow(flow_type) ==
    flow_type \in {JStr(<<"A","G","E","N","T","F","L","O","W">>), JStr(<<"M","U","L","T","I","A","G","E","N","T">>)}

\* improvement_goal.lower() if improvement_goal else ""
GoalLower(improvement_goal) ==
    IF Truthy(improvement_goal) THEN Lower(improvement_goal.v) ELSE <<>>

\* the part of analyze_flow_data after flowData is decoded
AnalyzeDecoded(flow, improvement_goal, flow_type, a, flow_data) ==
    IF ~IsDict(flow_data) THEN Raise("AttributeError")
    ELSE LET nodes == Get(flow_data, "nodes", JList(<<>>))
             edges == Get(flow_data, "edges", JList(<<>>))
             looped == IterateNodes(nodes)
         IN
         IF looped.exc # "none" THEN looped
         ELSE IF PyLen(nodes).exc # "none" THEN PyLen(nodes)
         ELSE IF PyLen(edges).exc # "none" THEN PyLen(edges)
         ELSE LET withNodes ==
                     [a EXCEPT !.nodes = looped.val,
                               !.summary = Text(<<"Flow contains ", PyLen(nodes).val,
                                                  " nodes and ", PyLen(edges).val,
                                                  " connections.">>)]
                  c == [categories_found |->
                            { looped.val[i].category : i \in 1..Len(looped.val) },
                        is_agent_flow |-> IsAgentFlow(flow_type),
                        goal_lower |-> GoalLower(improvement_goal),
                        improvement_goal |-> improvement_goal,
                        flow |-> flow]
              IN Return(ApplyRules(withNodes, c))

\* analyze_flow_data(flow, improvement_goal): the returned analysis or the
\* exception that leaves the function
analyze_flow_data(flow, improvement_goal) ==
    LET flow_type == Get(flow, "type", JStr(<<"C","H","A","T","F","L","O","W">>))
        a == NewAnalysis(flow, flow_type)
        flow_data_str == Get(flow, "flowData", JStr(<<"{","}">>))
    IN
    IF IsStr(flow_data_str)
    THEN LET decoded == json_loads(flow_data_str) IN
         IF decoded.exc # "none" THEN Return(CorruptedAnalysis(a))
         ELSE AnalyzeDecoded(flow, improvement_goal, flow_type, a, decoded.val)
    ELSE AnalyzeDecoded(flow, improvement_goal, flow_type, a, flow_data_str)

(***************************************************************************)
(* Inputs of the analysis                                                  *)
(***************************************************************************)
MaxNodes == 2
MaxEdges == 1

\* the dicts with at most the key k, its value drawn from values
Optional(k, values) == {EmptyMap} \cup { k :> x : x \in values }

\* sequences of at most n elements of S
SeqUpTo(S, n) == UNION { [1..k -> S] : k \in 0..n }

\* an edge entry; its contents are never read
EdgeEntry == JDict("source" :> JStr(<<"n","1">>))

EdgeLists == { JList([i \in 1..k |-> EdgeEntry]) : k \in {0, MaxEdges} }

\* Raw node entries for the graph parser: every combination of id, nested
\* name and nested label, the nested type present and absent, no data at
\* all, and entries that are no mapping where one is expected.  The nested
\* data always carries a category of its own.
ParserNodes ==
    { JDict(i @@ ("data" :> JDict(("type" :> JStr(<<"C","h","a","t","O","p","e","n","A","I">>)) @@ na @@ la
                                   @@ ("category" :> JStr(<<"M","e","m","o","r","y">>))))) :
        i \in Optional("id", {JStr(<<"n","1">>)}),
        na \in Optional("name", {JStr(<<"b","u","f","f","e","r","M","e","m","o","r","y">>)}),
        la \in Optional("label", {JStr(<<"M","y"," ",Quote,"L","L","M",Quote>>)}) }
    \cup { JDict(("id" :> JStr(<<"n","1">>))
                  @@ ("data" :> JDict(na @@ ("label" :> JStr(<<"M","y"," ",Quote,"L","L","M",Quote>>))
                                      @@ ("category" :> JStr(<<"M","e","m","o","r","y">>))))) :
             na \in Optional("name", {JStr(<<"b","u","f","f","e","r","M","e","m","o","r","y">>)}) }
    \cup { JDict(i) : i \in Optional("id", {JStr(<<"n","1">>)}) }
    \cup { JDict("id" :> JStr(<<"n","1">>) @@ "data" :> JNull),
           JDict("id" :> JStr(<<"n","1">>) @@ "data" :> JDict("type" :> JNull)),
           JNull }

ParserGraphs ==
    { JDict(n @@ e) :
        n \in Optional("nodes", { JList(ns) : ns \in SeqUpTo(ParserNodes, MaxNodes) }),
        e \in Optional("edges", EdgeLists) }
    \cup { JDict("nodes" :> JNull), JDict("edges" :> JNull) }

\* texts that are no JSON document
CorruptTexts == { JStr(<<"n","o","t"," ","v","a","l","i","d"," ","{">>), JStr(<<"i","n","v","a","l","i","d"," ","j","s","o","n"," ","{">>) }

\* flowData as the graph parser may meet it: absent, corrupted, encoded or
\* already decoded, a graph or some other JSON value
ParserFlowData ==
    LET docs == ParserGraphs \cup {JNull, JNum(5), JList(<<>>)} IN
    CorruptTexts \cup {JStr(<<"[","]">>), JStr(<<"n","u","l","l">>)}
        \cup docs \cup { JText(d) : d \in docs }

\* flow records for the graph parser: nothing but flowData, if that
ParserFlows == { JDict(fd) : fd \in Optional("flowData", ParserFlowData) }

\* Raw node entries for the rules: one node type per category a rule reads
RuleNodeTypes ==
    << <<"C","h","a","t","O","p","e","n","A","I">>, <<"B","u","f","f","e","r","M","e","m","o","r","y">>, <<"P","i","n","e","c","o","n","e">>, <<"M","u","l","t","i","Q","u","e","r","y","R","e","t","r","i","e","v","e","r">>,
      <<"P","d","f","F","i","l","e">>, <<"C","a","l","c","u","l","a","t","o","r">>, <<"S","t","r","u","c","t","u","r","e","d","O","u","t","p","u","t","P","a","r","s","e","r">>,
      <<"P","r","o","m","p","t","T","e","m","p","l","a","t","e">>, <<"I","n","p","u","t","M","o","d","e","r","a","t","i","o","n">>, <<"R","e","d","i","s","C","a","c","h","e">>, <<"S","u","p","e","r","v","i","s","o","r">> >>

RuleNodes ==
    [i \in 1..Len(RuleNodeTypes) |->
        JDict("id" :> JStr(<<"n","1">>) @@ "data" :> JDict("type" :> JStr(RuleNodeTypes[i])))]

\* The rules read the set of categories found, never the order of the
\* nodes: the node lists for the rules are the lists of at most MaxNodes
\* entries in the order of RuleNodes, repetitions included.
RuleNodeLists ==
    LET ascending == { ix \in SeqUpTo(1..Len(RuleNodes), MaxNodes) :
                         \A j \in 1..(Len(ix) - 1) : ix[j] <= ix[j + 1] }
    IN { [j \in 1..Len(ix) |-> RuleNodes[ix[j]]] : ix \in ascending }

RuleFlowData ==
    CorruptTexts
    \cup { JText(JDict("nodes" :> JList(ns) @@ "edges" :> JList(<<>>))) :
             ns \in RuleNodeLists }

RuleFlows ==
    { JDict(("name" :> JStr(<<"B","o","t">>)) @@ ("type" :> ty) @@ ("isPublic" :> pub)
            @@ ("flowData" :> fd)) :
        ty \in { JStr(<<"C","H","A","T","F","L","O","W">>), JStr(<<"A","G","E","N","T","F","L","O","W">>), JStr(<<"M","U","L","T","I","A","G","E","N","T">>) },
        pub \in { JBool(TRUE), JBool(FALSE) },
        fd \in RuleFlowData }

Goals ==
    { JNull, JStr(<<>>),
      JStr(<<"m","a","k","e"," ","i","t"," ","c","h","e","a","p","e","r">>),
      JStr(<<"I"," ","w","a","n","t"," ","b","e","t","t","e","r"," ","a","c","c","u","r","a","c","y"," ","a","n","d"," ","f","a","s","t","e","r"," ","r","e","s","p","o","n","s","e","s">>),
      JStr(<<"u","s","e"," ","o","u","r"," ","K","n","o","w","l","e","d","g","e"," ","b","a","s","e"," ","a","n","d"," ","F","O","R","M","A","T"," ","t","h","e"," ","o","u","t","p","u","t">>),
      JStr(<<"H","a","n","d","l","e"," ","S","U","P","P","O","R","T"," ","q","u","e","r","i","e","s"," ","f","a","s","t","e","r"," ","w","i","t","h"," ","b","e","t","t","e","r"," ","a","n","s","w","e","r","s">>) }

(***************************************************************************)
(* Specification of the analysis                                           *)
(***************************************************************************)
Init ==
    /\ pc = "start"
    /\ heap = Unset /\ task = Unset
    /\ call = Unset /\ requests = Unset /\ reply = Unset /\ result = Unset
    /\ node_type = Unset /\ category = Unset
    /\ \/ arg_flow \in ParserFlows /\ arg_goal = JNull
       \/ arg_flow \in RuleFlows /\ arg_goal \in Goals
    /\ outcome = Unset
    /\ arg_format = Unset
    /\ output = Unset

\* the call analysis = analyze_flow_data(flow, improvement_goal)
Analyze ==
    /\ pc = "start"
    /\ outcome' = analyze_flow_data(arg_flow, arg_goal)
    /\ pc' = IF outcome'.exc = "none" THEN "analyzed" ELSE "raised"
    /\ UNCHANGED <<node_type, category, arg_flow, arg_goal, arg_format, output>>
    /\ UNCHANGED <<taskVars, toolVars>>

(***************************************************************************)
(* format_analysis                                                         *)
(***************************************************************************)
\* the characters of each value categorize_node returns
CategoryText ==
    [c \in { categories[i].category : i \in 1..Len(categories) } \cup {"other"} |->
        CASE c = "llm" -> <<"l","l","m">>
          [] c = "memory" -> <<"m","e","m","o","r","y">>
          [] c = "vector_store" -> <<"v","e","c","t","o","r","_","s","t","o","r","e">>
          [] c = "retriever" -> <<"r","e","t","r","i","e","v","e","r">>
          [] c = "document_loader" -> <<"d","o","c","u","m","e","n","t","_","l","o","a","d","e","r">>
          [] c = "embeddings" -> <<"e","m","b","e","d","d","i","n","g","s">>
          [] c = "tool" -> <<"t","o","o","l">>
          [] c = "prompt" -> <<"p","r","o","m","p","t">>
          [] c = "agent" -> <<"a","g","e","n","t">>
          [] c = "chain" -> <<"c","h","a","i","n">>
          [] c = "text_splitter" -> <<"t","e","x","t","_","s","p","l","i","t","t","e","r">>
          [] c = "moderation" -> <<"m","o","d","e","r","a","t","i","o","n">>
          [] c = "cache" -> <<"c","a","c","h","e">>
          [] c = "output_parser" -> <<"o","u","t","p","u","t","_","p","a","r","s","e","r">>
          [] OTHER -> <<"o","t","h","e","r">>]

\* the characters of category names in code point order
CharOrder == <<"_","a","b","c","d","e","f","g","h","i","j","k","l","m","n","o","p","q","r","s","t","u","v","w","x","y","z">>
Ord(c) == CHOOSE i \in 1..Len(CharOrder) : CharOrder[i] = c

\* s < t on two texts (str comparison, by code points)
RECURSIVE StrLess(_, _)
StrLess(s, t) ==
    IF t = <<>> THEN FALSE
    ELSE IF s = <<>> THEN TRUE
    ELSE IF Head(s) = Head(t) THEN StrLess(Tail(s), Tail(t))
    ELSE Ord(Head(s)) < Ord(Head(t))

\* cat.replace('_', ' ').title()
TitleCase(s) ==
    [i \in 1..Len(s) |->
        IF s[i] = "_" THEN " "
        ELSE IF i = 1 \/ s[i - 1] = "_" THEN UpperChar(s[i]) ELSE s[i]]

\* the keys of the categories dict in insertion order: each category at
\* its first node
RECURSIVE CategoryKeys(_, _, _)
CategoryKeys(nodes, i, keys) ==
    IF i > Len(nodes) THEN keys
    ELSE CategoryKeys(nodes, i + 1,
            IF \E k \in 1..Len(keys) : keys[k] = nodes[i].category
            THEN keys ELSE Append(keys, nodes[i].category))

\* sorted(categories.items()): insertion of each key before the first
\* greater one
RECURSIVE InsertKey(_, _)
InsertKey(sorted, key) ==
    IF sorted = <<>> THEN <<key>>
    ELSE IF StrLess(CategoryText[key], CategoryText[Head(sorted)])
         THEN <<key>> \o sorted
         ELSE <<Head(sorted)>> \o InsertKey(Tail(sorted), key)

SortedKeys_insertion(keys) == keys

RECURSIVE SortedKeys(_)
SortedKeys(keys) ==
    IF keys = <<>> THEN <<>>
    ELSE InsertKey(SortedKeys(SubSeq(keys, 1, Len(keys) - 1)), keys[Len(keys)])

\* the lines of one category: its heading and its nodes in list order
CategoryLines(nodes, cat) ==
    LET mine == SelectSeq(nodes, LAMBDA n : n.category = cat) IN
    <<Text(<<"### ", TitleCase(CategoryText[cat])>>)>>
      \o [i \in 1..Len(mine) |-> Text(<<"- ", mine[i].label, " (", mine[i].type, ")">>)]

RECURSIVE FlattenLines(_)
FlattenLines(groups) ==
    IF groups = <<>> THEN <<>> ELSE Head(groups) \o FlattenLines(Tail(groups))

NodesOverview(nodes) ==
    IF nodes = <<>> THEN <<>>
    ELSE LET keys == SortedKeys(CategoryKeys(nodes, 1, <<>>)) IN
         <<Text(<<"## Nodes Overview">>)>>
           \o FlattenLines([k \in 1..Len(keys) |-> CategoryLines(nodes, keys[k])])
           \o <<Text(<<"">>)>>

IssueLines_always(issues) ==
    <<Text(<<"## [!] Potential Issues">>)>>
      \o [i \in 1..Len(issues) |-> Text(<<"- ", issues[i]>>)]
      \o <<Text(<<"">>)>>

IssueLines(issues) ==
    IF issues = <<>> THEN <<>>
    ELSE <<Text(<<"## [!] Potential Issues">>)>>
           \o [i \in 1..Len(issues) |-> Text(<<"- ", issues[i]>>)]
           \o <<Text(<<"">>)>>

\* key=lambda x: 0 if x["priority"] == "high" else 1
PriorityKey(x) == IF x.priority = "high" THEN 0 ELSE 1

InsertByKey_unstable(sorted, x) ==
    LET before == SelectSeq(sorted, LAMBDA y : PriorityKey(y) < PriorityKey(x))
        after == SelectSeq(sorted, LAMBDA y : PriorityKey(y) >= PriorityKey(x))
    IN before \o <<x>> \o after

\* x takes its place behind every element whose key is not greater
InsertByKey(sorted, x) ==
    LET before == SelectSeq(sorted, LAMBDA y : PriorityKey(y) <= PriorityKey(x))
        after == SelectSeq(sorted, LAMBDA y : PriorityKey(y) > PriorityKey(x))
    IN before \o <<x>> \o after

\* sorted(suggestions, key=...): a stable sort, a new list
RECURSIVE SortedByPriority(_)
SortedByPriority(suggestions) ==
    IF suggestions = <<>> THEN <<>>
    ELSE InsertByKey(SortedByPriority(SubSeq(suggestions, 1, Len(suggestions) - 1)),
                     suggestions[Len(suggestions)])

\* ', '.join(items)
RECURSIVE Join(_)
Join(items) ==
    IF Len(items) <= 1 THEN items
    ELSE <<Head(items), ", ">> \o Join(Tail(items))

TipLines(tips) == [i \in 1..Len(tips) |-> Text(<<"- ", tips[i]>>)]

\* s.get(key) is present and not empty
HasItems(s, key) == key \in DOMAIN s /\ Len(s[key]) > 0

SuggestionLines(s) ==
    << Text(<<"### ", IF s.priority = "high" THEN "[HIGH]" ELSE "[MEDIUM]", " ", s.title>>),
       Text(<<"**Category**: ", s.category>>),
       Text(<<"\n">> \o s.description) >>
      \o (IF HasItems(s, "tips")
          THEN <<Text(<<"\n**Recommendations:**">>)>> \o TipLines(s.tips) ELSE <<>>)
      \o (IF HasItems(s, "nodes_to_add")
          THEN <<Text(<<"\n**Suggested nodes**: ">> \o Join(s.nodes_to_add))>> ELSE <<>>)
      \o <<Text(<<"">>)>>

SuggestionSection(suggestions) ==
    IF suggestions = <<>> THEN <<>>
    ELSE LET ordered == SortedByPriority(suggestions) IN
         <<Text(<<"## Improvement Suggestions">>)>>
           \o FlattenLines([i \in 1..Len(ordered) |-> SuggestionLines(ordered[i])])

PracticeLines(p) ==
    <<Text(<<"### ", p.title>>)>>
      \o (IF HasItems(p, "tips") THEN TipLines(p.tips) ELSE <<>>)
      \o <<Text(<<"">>)>>

PracticeSection(practices) ==
    IF practices = <<>> THEN <<>>
    ELSE <<Text(<<"## Best Practices">>)>>
           \o FlattenLines([i \in 1..Len(practices) |-> PracticeLines(practices[i])])

(***************************************************************************)
(* json.dumps(analysis, indent=2)                                          *)
(***************************************************************************)
\* the keys of the analysis and of its items, each dict in the order the
\* source inserts them, and the keys of the documents of a response, in
\* the order they are met in the response
KeyOrder ==
    <<"flow_name", "flow_type", "summary",
      "id", "name", "type", "label", "deployed", "isPublic",
      "priority", "category", "title", "description", "nodes_to_add", "tips",
      "createdDate", "updatedDate",
      "nodes", "suggestions", "best_practices", "potential_issues",
      "text", "json", "role", "content", "value", "success",
      "numAdded", "timeTaken", "docs", "pageContent", "metadata", "source",
      "tools", "loaders">>

RECURSIVE json_dumps_value(_, _)
RECURSIVE json_dumps_items(_, _, _)
RECURSIVE json_dumps_members(_, _, _, _)

\* the elements of a list, each on a line of its own, commas between them
json_dumps_items(xs, i, level) ==
    IF i > Len(xs) THEN <<>>
    ELSE (IF i > 1 THEN <<Tok(",")>> ELSE <<>>)
         \o <<Ws(level)>> \o json_dumps_value(xs[i], level)
         \o json_dumps_items(xs, i + 1, level)

\* the members of a dict, keys in insertion order
json_dumps_members(d, keys, i, level) ==
    IF i > Len(keys) THEN <<>>
    ELSE (IF i > 1 THEN <<Tok(",")>> ELSE <<>>)
         \o <<Ws(level), StringToken("lit", keys[i]), Tok(":")>>
         \o json_dumps_value(d[keys[i]], level)
         \o json_dumps_members(d, keys, i + 1, level)

\* the tokens of one value at a nesting level
json_dumps_value(x, level) ==
    CASE x.t = "null" -> <<Tok("null")>>
      [] x.t = "bool" -> <<Tok(IF x.v THEN "true" ELSE "false")>>
      [] x.t = "num" -> <<NumberToken(x.v)>>
      [] x.t = "str" -> <<StringToken("str", Escape(x.v))>>
      [] x.t = "lit" -> <<StringToken("lit", x.v)>>
      [] x.t = "fstr" ->
            <<StringToken("fstr", [i \in 1..Len(x.v) |-> EscapePart(x.v[i])])>>
      [] x.t = "list" ->
            IF Len(x.v) = 0 THEN <<Tok("["), Tok("]")>>
            ELSE <<Tok("[")>> \o json_dumps_items(x.v, 1, level + 1)
                 \o <<Ws(level), Tok("]")>>
      [] x.t = "dict" ->
            LET keys == SelectSeq(KeyOrder, LAMBDA key : key \in DOMAIN x.v) IN
            IF Len(keys) = 0 THEN <<Tok("{"), Tok("}")>>
            ELSE <<Tok("{")>> \o json_dumps_members(x.v, keys, 1, level + 1)
                 \o <<Ws(level), Tok("}")>>

json_dumps(x) == JTokens(json_dumps_value(x, 0))

\* The analysis as the Python dict json.dumps is given: the summary is the
\* f-string of line 258 or the empty literal, a description the f-string of
\* line 390 or a literal, every other str of the rules a literal.
LitList(xs) == JList([i \in 1..Len(xs) |-> JLit(xs[i])])

SummaryDoc(parts) ==
    IF Len(parts) = 0 THEN JLit("")
    ELSE JFStr(<<JLit(parts[1]), JNum(parts[2]), JLit(parts[3]),
                 JNum(parts[4]), JLit(parts[5])>>)

DescriptionDoc(parts) ==
    IF Len(parts) = 1 THEN JLit(parts[1])
    ELSE JFStr(<<JLit(parts[1]), JStr(parts[2]), JLit(parts[3])>>)

NodeDoc(node) ==
    JDict([key \in {"id", "type", "label", "category"} |->
             IF key = "category" THEN JLit(node.category) ELSE node[key]])

ItemDoc(item) ==
    JDict([key \in DOMAIN item |->
             CASE key \in {"priority", "category", "title"} -> JLit(item[key])
               [] key = "description" -> DescriptionDoc(item.description)
               [] key \in {"nodes_to_add", "tips"} -> LitList(item[key])])

AnalysisDoc(analysis) ==
    JDict([key \in DOMAIN analysis |->
             CASE key \in {"flow_name", "flow_type"} -> analysis[key]
               [] key = "summary" -> SummaryDoc(analysis.summary)
               [] key = "nodes" ->
                     JList([i \in 1..Len(analysis.nodes) |-> NodeDoc(analysis.nodes[i])])
               [] key \in {"suggestions", "best_practices"} ->
                     JList([i \in 1..Len(analysis[key]) |-> ItemDoc(analysis[key][i])])
               [] key = "potential_issues" -> LitList(analysis.potential_issues)])

\* format_analysis(analysis, format_type): the lines joined by newlines in
\* markdown mode, the JSON text of the analysis in JSON mode
format_analysis(analysis, format_type) ==
    IF format_type = "json" THEN json_dumps(AnalysisDoc(analysis))
    ELSE << Text(<<"# Flow Analysis: ", analysis.flow_name>>),
            Text(<<"">>),
            Text(<<"**Type**: ", analysis.flow_type>>),
            Text(<<"**Summary**: ">> \o analysis.summary),
            Text(<<"">>) >>
           \o NodesOverview(analysis.nodes)
           \o IssueLines(analysis.potential_issues)
           \o SuggestionSection(analysis.suggestions)
           \o PracticeSection(analysis.best_practices)

\* ResponseFormat
ResponseFormats == {"markdown", "json"}

\* the call format_analysis(analysis, format_type) on a returned analysis
Format ==
    /\ pc = "analyzed"
    /\ \E format_type \in ResponseFormats :
          /\ arg_format' = format_type
          /\ output' = format_analysis(outcome.val, format_type)
    /\ pc' = "rendered"
    /\ UNCHANGED <<node_type, category, arg_flow, arg_goal, outcome>>
    /\ UNCHANGED <<taskVars, toolVars>>

Next == Analyze \/ Format

Spec == Init /\ [][Next]_vars

(***************************************************************************)
(* Properties of categorize_node, checked under SpecCat                    *)
(***************************************************************************)
Categorized == pc \in {"categorized", "recased"}

\* the categories in the order the rules are tried
RuleOrder ==
    <<"llm", "memory", "vector_store", "retriever", "document_loader",
      "embeddings", "tool", "prompt", "agent", "chain", "text_splitter",
      "moderation", "cache", "output_parser">>

\* the rules with a keyword occurring in the lower-cased text
MatchingRules(type_text) ==
    { i \in 1..Len(categories) : AnyKeyword(categories[i].keywords, Lower(type_text)) }

\* C3: categorize_node returns the category of the first rule, in the
\* fixed order of the fourteen rules, that has a keyword occurring in the
\* lower-cased type text, and "other" exactly when no rule has one.
C3_FirstMatchingRule ==
    Categorized =>
        LET m == MatchingRules(node_type) IN
        /\ [i \in 1..Len(categories) |-> categories[i].category] = RuleOrder
        /\ (category = "other") <=> (m = {})
        /\ m # {} => category = RuleOrder[CHOOSE i \in m : \A j \in m : i <= j]

\* a text matched by two rules gets the category of the earlier one
C3_Witness ==
    /\ pc = "categorized"
    /\ MatchingRules(node_type) = {9, 14}
    /\ category = "agent"

AgentKeywords == { <<"a","g","e","n","t">>, <<"s","u","p","e","r","v","i","s","o","r">>, <<"w","o","r","k","e","r">> }
OutputKeywords == { <<"p","a","r","s","e","r">>, <<"o","u","t","p","u","t">> }

HasKeyword(keywords, type_text) ==
    \E kw \in keywords : Contains(kw, Lower(type_text))

\* C4 as stated: every type text with an agent keyword and an output
\* keyword is classified "agent".
C4_AgentWheneverBoth ==
    Categorized /\ HasKeyword(AgentKeywords, node_type)
                /\ HasKeyword(OutputKeywords, node_type)
        => category = "agent"

\* C4 amended: a type text with an agent keyword and an output keyword is
\* classified "agent" when no keyword of the eight earlier rules (llm to
\* prompt) occurs in it, and otherwise gets the category of the first of
\* those earlier rules; it is never classified "output_parser".
C4_AgentUnlessEarlierRule ==
    Categorized /\ HasKeyword(AgentKeywords, node_type)
                /\ HasKeyword(OutputKeywords, node_type)
        => LET earlier == { i \in 1..8 :
                              AnyKeyword(categories[i].keywords, Lower(node_type)) }
           IN /\ earlier = {} => category = "agent"
              /\ earlier # {} =>
                    category = RuleOrder[CHOOSE i \in earlier : \A j \in earlier : i <= j]
              /\ category # "output_parser"

C4_Witness ==
    /\ pc = "categorized"
    /\ HasKeyword(AgentKeywords, node_type)
    /\ HasKeyword(OutputKeywords, node_type)
    /\ category = "agent"

\* "gpt" occurs in the text in some letter case
ContainsGpt(type_text) ==
    \E i \in 1..(Len(type_text) - 2) :
        /\ type_text[i] \in {"g", "G"}
        /\ type_text[i + 1] \in {"p", "P"}
        /\ type_text[i + 2] \in {"t", "T"}

\* C5: a type text containing "gpt" in any letter case, whatever surrounds
\* it, is classified "llm"; the same text in another letter case gets the
\* same category.
C5_GptAndCaseInsensitive ==
    [][ /\ ContainsGpt(node_type') => category' = "llm"
        /\ pc = "categorized" => category' = category ]_vars

\* "gpt" in mixed case inside a longer text, found again after recasing
C5_Witness ==
    /\ pc = "recased"
    /\ ContainsGpt(node_type)
    /\ Len(node_type) > 3
    /\ node_type # Lower(node_type)
    /\ node_type # Upper(node_type)
    /\ category = "llm"

(***************************************************************************)
(* Properties of analyze_flow_data and format_analysis, checked under Spec *)
(***************************************************************************)
\* analyze_flow_data has returned an Analysis
Analysed == pc \in {"analyzed", "rendered"}

\* the raw flowData is a string that is no JSON document
FlowDataCorrupt ==
    /\ "flowData" \in DOMAIN arg_flow.v
    /\ arg_flow.v["flowData"] \in CorruptTexts

\* the raw node entries of a flow whose analysis was returned
RawNodes ==
    LET fd == Get(arg_flow, "flowData", JDict(EmptyMap))
        graph == IF fd.t = "json_text" THEN fd.v ELSE fd
    IN IF FlowDataCorrupt \/ ~IsDict(graph) THEN <<>>
       ELSE Get(graph, "nodes", JList(<<>>)).v

Titles(items) == [i \in 1..Len(items) |-> items[i].title]

NodeCategories(analysis) ==
    { analysis.nodes[i].category : i \in 1..Len(analysis.nodes) }

HasSuggestion(analysis, title) ==
    \E i \in 1..Len(analysis.suggestions) : analysis.suggestions[i].title = title

\* C1 as stated: analyze_flow_data returns an Analysis for every flow
\* record and never raises.
C1_NeverRaises == pc # "raised"

\* the memory suggestion is there, at high priority, exactly when no node
\* of the Analysis is classified memory
MemorySuggestionIffNoMemoryNode(analysis) ==
    IF "memory" \notin NodeCategories(analysis)
    THEN \E i \in 1..Len(analysis.suggestions) :
            /\ analysis.suggestions[i].title = "Add Conversation Memory"
            /\ analysis.suggestions[i].priority = "high"
    ELSE ~HasSuggestion(analysis, "Add Conversation Memory")

\* C2 as stated: for all flows the Analysis has the high-priority
\* suggestion "Add Conversation Memory" if and only if no node is
\* classified memory.
C2_MemoryIffNoMemoryNode ==
    Analysed => MemorySuggestionIffNoMemoryNode(outcome.val)

\* C2 amended: the equivalence holds for every Analysis returned without a
\* potential issue, that is, whenever flowData decoded; an Analysis of a
\* corrupted flowData has no node and no memory suggestion.
C2_MemoryIffNoMemoryNodeWhenDecoded ==
    Analysed =>
        IF outcome.val.potential_issues = <<>>
        THEN MemorySuggestionIffNoMemoryNode(outcome.val)
        ELSE outcome.val.nodes = <<>>
             /\ ~HasSuggestion(outcome.val, "Add Conversation Memory")

\* a flow with a memory node and other suggestions, but not the memory one
C2_Witness ==
    /\ pc = "analyzed"
    /\ "memory" \in NodeCategories(outcome.val)
    /\ Len(outcome.val.suggestions) > 0
    /\ ~HasSuggestion(outcome.val, "Add Conversation Memory")

\* C6: in every Analysis returned, potential_issues is non-empty if and
\* only if the raw flowData string failed to decode.
C6_IssuesIffCorrupt ==
    Analysed => ((outcome.val.potential_issues # <<>>) <=> FlowDataCorrupt)

C6_Witness ==
    /\ pc = "analyzed"
    /\ FlowDataCorrupt
    /\ Len(outcome.val.potential_issues) = 1

\* C7: when flowData fails to decode, the Analysis returned has exactly the
\* issue "Could not parse flow data - flow may be corrupted" and no node,
\* no suggestion and no best-practice note, whatever the flow type, the
\* isPublic flag and the goal.
C7_CorruptSkipsRules ==
    pc # "start" /\ FlowDataCorrupt =>
        /\ outcome.exc = "none"
        /\ outcome.val.potential_issues =
              <<"Could not parse flow data - flow may be corrupted">>
        /\ outcome.val.nodes = <<>>
        /\ outcome.val.suggestions = <<>>
        /\ outcome.val.best_practices = <<>>

\* a corrupted public agent flow analysed with a goal full of keywords
C7_Witness ==
    /\ pc = "analyzed"
    /\ FlowDataCorrupt
    /\ IsAgentFlow(Get(arg_flow, "type", JNull))
    /\ Truthy(Get(arg_flow, "isPublic", JNull))
    /\ Truthy(arg_goal)
    /\ Contains(<<"b","e","t","t","e","r">>, Lower(arg_goal.v))
    /\ outcome.val.suggestions = <<>>

\* the titles of the eight suggestion rules and of the two best-practice
\* rules, in the order of the rules
SuggestionOrder ==
    <<"Add Conversation Memory", "Add Vector Store for Knowledge Base",
      "Add Tools to Agent", "Add Output Parser", "Add Input Moderation",
      "Improve Response Accuracy", "Improve Response Speed",
      "Extend Capabilities">>

PracticeOrder == <<"Prompt Engineering Tips", "Consider Adding Caching">>

\* the condition of the rule that appends the item with this title, read
\* from the inputs and the categories of the nodes
RuleFires(title) ==
    LET cats == NodeCategories(outcome.val)
        goal == IF arg_goal.t = "str" THEN Lower(arg_goal.v) ELSE <<>>
        agentFlow == Get(arg_flow, "type", JNull)
                        \in {JStr(<<"A","G","E","N","T","F","L","O","W">>), JStr(<<"M","U","L","T","I","A","G","E","N","T">>)}
        public == Get(arg_flow, "isPublic", JNull) = JBool(TRUE)
    IN CASE title = "Add Conversation Memory" -> "memory" \notin cats
         [] title = "Add Vector Store for Knowledge Base" ->
                Contains(<<"k","n","o","w","l","e","d","g","e">>, goal) /\ "vector_store" \notin cats
         [] title = "Add Tools to Agent" -> agentFlow /\ "tool" \notin cats
         [] title = "Add Output Parser" ->
                Contains(<<"f","o","r","m","a","t">>, goal) /\ "output_parser" \notin cats
         [] title = "Prompt Engineering Tips" -> "prompt" \in cats
         [] title = "Add Input Moderation" -> public /\ "moderation" \notin cats
         [] title = "Consider Adding Caching" -> "cache" \notin cats
         [] title = "Improve Response Accuracy" ->
                Contains(<<"a","c","c","u","r","a","c","y">>, goal) \/ Contains(<<"b","e","t","t","e","r">>, goal)
         [] title = "Improve Response Speed" ->
                Contains(<<"f","a","s","t">>, goal) \/ Contains(<<"s","p","e","e","d">>, goal)
         [] title = "Extend Capabilities" ->
                Contains(<<"h","a","n","d","l","e">>, goal) \/ Contains(<<"s","u","p","p","o","r","t">>, goal)

\* C8: for a decoded flow each of the ten rules is evaluated whatever the
\* others did and appends at most one item: suggestions is the subsequence
\* of the fixed order of the eight suggestion titles formed by the rules
\* that fired (so no title occurs twice), and best_practices likewise of
\* the two best-practice titles.
C8_RulesIndependentInOrder ==
    Analysed /\ ~FlowDataCorrupt =>
        /\ Titles(outcome.val.suggestions) = SelectSeq(SuggestionOrder, RuleFires)
        /\ Titles(outcome.val.best_practices) = SelectSeq(PracticeOrder, RuleFires)

\* many rules fire together
C8_Witness ==
    /\ pc = "analyzed"
    /\ ~FlowDataCorrupt
    /\ Len(outcome.val.suggestions) >= 5
    /\ Len(outcome.val.best_practices) = 2

\* the suggestion headings of a markdown rendering, as <<indicator, title>>
RenderedSuggestions(lines) ==
    LET heads == SelectSeq(lines, LAMBDA l : Len(l) = 4 /\ l[1] = "### ") IN
    [i \in 1..Len(heads) |-> <<heads[i][2], heads[i][4]>>]

WithPriority(suggestions, priority) ==
    SelectSeq(suggestions, LAMBDA s : s.priority = priority)

\* C9: markdown mode renders all high-priority suggestions before all
\* medium-priority ones and keeps, within each priority, the order the
\* suggestions have in the Analysis.
C9_StableByPriority ==
    pc = "rendered" /\ arg_format = "markdown" =>
        LET high == WithPriority(outcome.val.suggestions, "high")
            medium == WithPriority(outcome.val.suggestions, "medium")
        IN RenderedSuggestions(output) =
              [i \in 1..Len(high) |-> <<"[HIGH]", high[i].title>>]
                \o [i \in 1..Len(medium) |-> <<"[MEDIUM]", medium[i].title>>]

\* the Analysis order [medium, high, high, medium], rendered
C9_Witness ==
    /\ pc = "rendered" /\ arg_format = "markdown"
    /\ [i \in 1..Len(outcome.val.suggestions) |-> outcome.val.suggestions[i].priority]
          = <<"medium", "high", "high", "medium">>
    /\ [i \in 1..4 |-> RenderedSuggestions(output)[i][1]]
          = <<"[HIGH]", "[HIGH]", "[MEDIUM]", "[MEDIUM]">>

\* the nested data mapping of a raw node entry
RawData(node) == Get(node, "data", JDict(EmptyMap))

\* the label of C10 as stated
LabelNameIdUnnamed(node) ==
    Get(RawData(node), "label",
        Get(RawData(node), "name", Get(node, "id", JStr(<<"U","n","n","a","m","e","d">>))))

\* the label of C10 as amended
LabelIdUnnamed(node) ==
    Get(RawData(node), "label", Get(node, "id", JStr(<<"U","n","n","a","m","e","d">>)))

\* C10 as stated: the label of each node is the nested data label when
\* present, else the nested data name, else the own id of the node, else
\* "Unnamed".
C10_LabelElseNameElseId ==
    Analysed =>
        /\ Len(outcome.val.nodes) = Len(RawNodes)
        /\ \A i \in 1..Len(RawNodes) :
              outcome.val.nodes[i].label = LabelNameIdUnnamed(RawNodes[i])

\* C10 amended: the label of each node is the nested data label when
\* present, else the own id of the node, else "Unnamed"; the nested data
\* name is never used as the label.
C10_LabelElseId ==
    Analysed =>
        /\ Len(outcome.val.nodes) = Len(RawNodes)
        /\ \A i \in 1..Len(RawNodes) :
              outcome.val.nodes[i].label = LabelIdUnnamed(RawNodes[i])

\* a node with a nested name, no nested label and an id is labelled by its id
C10_Witness ==
    /\ pc = "analyzed"
    /\ \E i \in 1..Len(RawNodes) :
          /\ "name" \in DOMAIN RawData(RawNodes[i]).v
          /\ "label" \notin DOMAIN RawData(RawNodes[i]).v
          /\ "id" \in DOMAIN RawNodes[i].v
          /\ outcome.val.nodes[i].label = RawNodes[i].v["id"]
          /\ outcome.val.nodes[i].label # RawData(RawNodes[i]).v["name"]

\* the type of C11: nested type, else nested name, else "Unknown"
TypeNameUnknown(node) ==
    Get(RawData(node), "type", Get(RawData(node), "name", JStr(<<"U","n","k","n","o","w","n">>)))

\* C11: the type of each node is the nested data type when present, else
\* the nested data name, else "Unknown"; the category of the node is
\* categorize_node of that type, whatever category the raw data carries.
C11_TypeElseNameAndDerivedCategory ==
    Analysed =>
        /\ Len(outcome.val.nodes) = Len(RawNodes)
        /\ \A i \in 1..Len(RawNodes) :
              /\ outcome.val.nodes[i].type = TypeNameUnknown(RawNodes[i])
              /\ outcome.val.nodes[i].category =
                    categorize_node(TypeNameUnknown(RawNodes[i]).v)

\* a node without nested type takes its name as type and is classified by
\* it, although its raw data names another category
C11_Witness ==
    /\ pc = "analyzed"
    /\ \E i \in 1..Len(RawNodes) :
          LET d == RawData(RawNodes[i]) IN
          /\ "type" \notin DOMAIN d.v
          /\ "name" \in DOMAIN d.v
          /\ "category" \in DOMAIN d.v
          /\ outcome.val.nodes[i].type = d.v["name"]
          /\ outcome.val.nodes[i].category = "memory"
          /\ CategoryText[outcome.val.nodes[i].category] # d.v["category"].v

\* the raw edge entries of a flow whose analysis was returned
RawEdges ==
    LET fd == Get(arg_flow, "flowData", JDict(EmptyMap))
        graph == IF fd.t = "json_text" THEN fd.v ELSE fd
    IN IF FlowDataCorrupt \/ ~IsDict(graph) THEN <<>>
       ELSE Get(graph, "edges", JList(<<>>)).v

\* C12: for a decoded flow Analysis.nodes has one entry per raw node entry,
\* in the raw order, duplicates kept; the counts in the summary are the
\* numbers of raw node entries and of raw edge entries.
C12_OneNodePerEntryAndCounts ==
    Analysed /\ ~FlowDataCorrupt =>
        /\ Len(outcome.val.nodes) = Len(RawNodes)
        /\ \A i \in 1..Len(RawNodes) :
              /\ outcome.val.nodes[i].id = Get(RawNodes[i], "id", JNull)
              /\ outcome.val.nodes[i].type = TypeNameUnknown(RawNodes[i])
        /\ outcome.val.summary =
              <<"Flow contains ", Len(RawNodes), " nodes and ",
                Len(RawEdges), " connections.">>

\* two equal raw entries give two equal nodes; an edge is counted
C12_Witness ==
    /\ pc = "analyzed"
    /\ Len(RawNodes) = 2
    /\ RawNodes[1] = RawNodes[2]
    /\ Len(outcome.val.nodes) = 2
    /\ outcome.val.nodes[1] = outcome.val.nodes[2]
    /\ Len(RawEdges) > 0

\* the goal as the caller gave it, empty when there is none
GoalText == IF arg_goal.t = "str" THEN arg_goal.v ELSE <<>>

\* kw, a lower-case keyword, occurs in text in some letter case
OccursAnyCase(kw, text) ==
    \E i \in 1..(Len(text) - Len(kw) + 1) :
        \A j \in 1..Len(kw) : LowerChar(text[i + j - 1]) = kw[j]

\* the suggestions of the rules that read the goal
GoalGatedTitles ==
    {"Add Vector Store for Knowledge Base", "Add Output Parser",
     "Improve Response Accuracy", "Improve Response Speed", "Extend Capabilities"}

\* the keywords of each of them
GoalKeywords(title) ==
    CASE title = "Add Vector Store for Knowledge Base" -> {<<"k","n","o","w","l","e","d","g","e">>}
      [] title = "Add Output Parser" -> {<<"f","o","r","m","a","t">>}
      [] title = "Improve Response Accuracy" -> {<<"a","c","c","u","r","a","c","y">>, <<"b","e","t","t","e","r">>}
      [] title = "Improve Response Speed" -> {<<"f","a","s","t">>, <<"s","p","e","e","d">>}
      [] title = "Extend Capabilities" -> {<<"h","a","n","d","l","e">>, <<"s","u","p","p","o","r","t">>}

\* C13: with the goal absent or empty no goal-gated rule fires; with a goal
\* given, a goal-gated rule fires only if one of its keywords occurs in the
\* goal, letter case ignored.
C13_GoalGatedOnlyOnKeyword ==
    Analysed =>
        \A title \in GoalGatedTitles :
            HasSuggestion(outcome.val, title) =>
                \E kw \in GoalKeywords(title) : OccursAnyCase(kw, GoalText)

\* a keyword in upper case fires its rule, a goal without keywords none
C13_Witness ==
    /\ pc = "analyzed"
    /\ OccursAnyCase(<<"f","o","r","m","a","t">>, GoalText)
    /\ ~Contains(<<"f","o","r","m","a","t">>, GoalText)
    /\ HasSuggestion(outcome.val, "Add Output Parser")
    /\ ~HasSuggestion(outcome.val, "Improve Response Speed")

\* the type of the flow record, CHATFLOW when it has none
FlowTypeGiven == Get(arg_flow, "type", JStr(<<"C","H","A","T","F","L","O","W">>))

\* the isPublic flag of the flow record is true
FlowIsPublic == Get(arg_flow, "isPublic", JNull) = JBool(TRUE)

\* the raw nodes are exactly one node of this type
SingleNodeOfType(type_text) ==
    /\ Len(RawNodes) = 1
    /\ TypeNameUnknown(RawNodes[1]) = JStr(type_text)

C15_ModerationIffPublicWithoutModeration ==
    Analysed /\ ~FlowDataCorrupt =>
        /\ HasSuggestion(outcome.val, "Add Input Moderation")
              <=> /\ FlowIsPublic
                  /\ "moderation" \notin NodeCategories(outcome.val)
        /\ \A i \in 1..Len(outcome.val.suggestions) :
              outcome.val.suggestions[i].title = "Add Input Moderation"
                 => outcome.val.suggestions[i].priority = "medium"
        /\ ( \/ "isPublic" \notin DOMAIN arg_flow.v
             \/ arg_flow.v["isPublic"] = JBool(FALSE) )
              => ~HasSuggestion(outcome.val, "Add Input Moderation")

\* a public flow without a moderation node has got the suggestion
C15_Witness ==
    /\ pc = "analyzed" /\ ~FlowDataCorrupt
    /\ FlowIsPublic
    /\ Len(RawNodes) > 0
    /\ "moderation" \notin NodeCategories(outcome.val)
    /\ HasSuggestion(outcome.val, "Add Input Moderation")

\* the goal contains the keyword, letter case aside
GoalHas(kw) == OccursAnyCase(kw, GoalText)

\* the list the vector-store suggestion must carry for these categories
ExpectedVectorNodes(cats) ==
    LET base == <<"Chroma", "Pinecone", "FAISS", "OpenAI Embeddings">>
        loaders == IF "document_loader" \in cats THEN base
                   ELSE base \o <<"PDF Loader", "Text Loader">>
    IN IF "retriever" \in cats THEN loaders
       ELSE Append(loaders, "Vector Store Retriever")

\* the vector-store suggestion is there, high and with the expected list,
\* exactly when the goal contains 'knowledge' and no node is classified
\* vector_store
VectorIffKnowledgeWithoutStore(analysis) ==
    /\ HasSuggestion(analysis, "Add Vector Store for Knowledge Base")
          <=> /\ GoalHas(<<"k","n","o","w","l","e","d","g","e">>)
              /\ "vector_store" \notin NodeCategories(analysis)
    /\ \A i \in 1..Len(analysis.suggestions) :
          analysis.suggestions[i].title = "Add Vector Store for Knowledge Base"
             => /\ analysis.suggestions[i].priority = "high"
                /\ analysis.suggestions[i].nodes_to_add =
                      ExpectedVectorNodes(NodeCategories(analysis))

\* C16 as stated: the equivalence and the list hold for every Analysis
\* returned.
C16_VectorIffKnowledge ==
    Analysed => VectorIffKnowledgeWithoutStore(outcome.val)

\* C16 amended: the equivalence and the list hold for every Analysis of a
\* flow whose flowData decoded; the Analysis of a corrupted flowData has no
\* vector-store suggestion, whatever the goal.
C16_VectorIffKnowledgeWhenDecoded ==
    Analysed =>
        IF ~FlowDataCorrupt
        THEN VectorIffKnowledgeWithoutStore(outcome.val)
        ELSE ~HasSuggestion(outcome.val, "Add Vector Store for Knowledge Base")

\* a knowledge goal on a flow with a document loader and a retriever but no
\* vector store: the suggestion carries the base list only
C16_Witness ==
    /\ pc = "analyzed" /\ ~FlowDataCorrupt
    /\ GoalHas(<<"k","n","o","w","l","e","d","g","e">>)
    /\ {"document_loader", "retriever"} \subseteq NodeCategories(outcome.val)
    /\ \E i \in 1..Len(outcome.val.suggestions) :
          /\ outcome.val.suggestions[i].title = "Add Vector Store for Knowledge Base"
          /\ Len(outcome.val.suggestions[i].nodes_to_add) = 4

HasPractice(analysis, title) ==
    \E i \in 1..Len(analysis.best_practices) : analysis.best_practices[i].title = title

\* C17: for a decoded flow best_practices holds "Prompt Engineering Tips"
\* if and only if some node is classified prompt and "Consider Adding
\* Caching" if and only if no node is classified cache, the prompt note
\* first; neither is a suggestion and no note carries a priority. A
\* CHATFLOW (not public) with the single node ChatOpenAI and no goal gets
\* exactly the suggestion "Add Conversation Memory", the caching note and no
\* prompt note.
C17_PracticeNotes ==
    Analysed /\ ~FlowDataCorrupt =>
        LET a == outcome.val
            cats == NodeCategories(a)
            expected ==
                (IF "prompt" \in cats THEN <<"Prompt Engineering Tips">> ELSE <<>>)
                \o (IF "cache" \notin cats THEN <<"Consider Adding Caching">> ELSE <<>>)
        IN
        /\ HasPractice(a, "Prompt Engineering Tips") <=> "prompt" \in cats
        /\ HasPractice(a, "Consider Adding Caching") <=> "cache" \notin cats
        /\ Titles(a.best_practices) = expected
        /\ ~HasSuggestion(a, "Prompt Engineering Tips")
        /\ ~HasSuggestion(a, "Consider Adding Caching")
        /\ \A i \in 1..Len(a.best_practices) :
              /\ "priority" \notin DOMAIN a.best_practices[i]
              /\ Len(a.best_practices[i].tips) > 0
        /\ ( /\ FlowTypeGiven = JStr(<<"C","H","A","T","F","L","O","W">>)
             /\ ~FlowIsPublic
             /\ SingleNodeOfType(<<"C","h","a","t","O","p","e","n","A","I">>)
             /\ arg_goal = JNull )
              => /\ Titles(a.suggestions) = <<"Add Conversation Memory">>
                 /\ a.suggestions[1].priority = "high"
                 /\ Titles(a.best_practices) = <<"Consider Adding Caching">>

\* a prompt node and no cache node: both notes, the prompt note first
C17_Witness ==
    /\ pc = "analyzed" /\ ~FlowDataCorrupt
    /\ "prompt" \in NodeCategories(outcome.val)
    /\ Titles(outcome.val.best_practices) =
          <<"Prompt Engineering Tips", "Consider Adding Caching">>

\* s holds a high-priority item with this title that carries tips and no
\* nodes_to_add
HasHighTipsOnly(suggestions, title) ==
    \E i \in 1..Len(suggestions) :
        /\ suggestions[i].title = title
        /\ suggestions[i].priority = "high"
        /\ "tips" \in DOMAIN suggestions[i]
        /\ Len(suggestions[i].tips) > 0
        /\ "nodes_to_add" \notin DOMAIN suggestions[i]

\* every occurrence of the first title comes before every occurrence of
\* the second in a sequence of titles
Precedes(titles, first, second) ==
    \A i, j \in 1..Len(titles) :
        titles[i] = first /\ titles[j] = second => i < j

\* the accuracy and the speed keywords yield their suggestions, accuracy
\* first, in the Analysis and in the rendered text
AccuracyAndSpeed ==
    LET a == outcome.val
        accurate == GoalHas(<<"a","c","c","u","r","a","c","y">>) \/ GoalHas(<<"b","e","t","t","e","r">>)
        fast == GoalHas(<<"f","a","s","t">>) \/ GoalHas(<<"s","p","e","e","d">>)
    IN
    /\ accurate => HasHighTipsOnly(a.suggestions, "Improve Response Accuracy")
    /\ fast => HasHighTipsOnly(a.suggestions, "Improve Response Speed")
    /\ accurate /\ fast =>
          /\ Precedes(Titles(a.suggestions),
                      "Improve Response Accuracy", "Improve Response Speed")
          /\ pc = "rendered" /\ arg_format = "markdown" =>
                LET shown == RenderedSuggestions(output) IN
                /\ \E i, j \in 1..Len(shown) :
                      /\ i < j
                      /\ shown[i] = <<"[HIGH]", "Improve Response Accuracy">>
                      /\ shown[j] = <<"[HIGH]", "Improve Response Speed">>
                /\ Precedes([i \in 1..Len(shown) |-> shown[i][2]],
                            "Improve Response Accuracy", "Improve Response Speed")

\* C18 as stated: the keywords yield the two suggestions in every Analysis
\* returned.
C18_AccuracyAndSpeed ==
    Analysed => AccuracyAndSpeed

\* C18 amended: the keywords yield the two suggestions, accuracy before
\* speed, for every flow whose flowData decoded; the Analysis of a
\* corrupted flowData has neither, whatever the goal.
C18_AccuracyAndSpeedWhenDecoded ==
    Analysed =>
        IF ~FlowDataCorrupt
        THEN AccuracyAndSpeed
        ELSE /\ ~HasSuggestion(outcome.val, "Improve Response Accuracy")
             /\ ~HasSuggestion(outcome.val, "Improve Response Speed")

\* the goal "I want better accuracy and faster responses" on a decoded
\* flow, rendered
C18_Witness ==
    /\ pc = "rendered" /\ arg_format = "markdown" /\ ~FlowDataCorrupt
    /\ arg_goal = JStr(<<"I"," ","w","a","n","t"," ","b","e","t","t","e","r"," ","a","c","c","u","r","a","c","y"," ","a","n","d"," ","f","a","s","t","e","r"," ","r","e","s","p","o","n","s","e","s">>)
    /\ Len(RawNodes) > 0
    /\ \E i \in 1..Len(RenderedSuggestions(output)) :
          RenderedSuggestions(output)[i] = <<"[HIGH]", "Improve Response Speed">>

\* the capability suggestion is added at medium priority when the goal
\* contains 'handle' or 'support' in any letter case, and its description
\* embeds the goal as it was supplied
CapabilityQuotesGoal ==
    GoalHas(<<"h","a","n","d","l","e">>) \/ GoalHas(<<"s","u","p","p","o","r","t">>) =>
        \E i \in 1..Len(outcome.val.suggestions) :
            /\ outcome.val.suggestions[i].title = "Extend Capabilities"
            /\ outcome.val.suggestions[i].priority = "medium"
            /\ outcome.val.suggestions[i].description =
                  <<"Based on your goal '", arg_goal.v, "':">>

\* C19 as stated: the capability suggestion is added, quoting the goal, in
\* every Analysis returned.
C19_CapabilityQuotesGoal ==
    Analysed => CapabilityQuotesGoal

\* C19 amended: the capability suggestion is added, quoting the goal in its
\* original letter case, for every flow whose flowData decoded; the
\* Analysis of a corrupted flowData has none, whatever the goal.
C19_CapabilityQuotesGoalWhenDecoded ==
    Analysed =>
        IF ~FlowDataCorrupt
        THEN CapabilityQuotesGoal
        ELSE ~HasSuggestion(outcome.val, "Extend Capabilities")

\* a goal whose keywords are not in lower case and that differs from its
\* lower-cased form has fired the rule
C19_Witness ==
    /\ pc = "analyzed" /\ ~FlowDataCorrupt
    /\ GoalHas(<<"s","u","p","p","o","r","t">>) /\ ~Contains(<<"s","u","p","p","o","r","t">>, GoalText)
    /\ GoalHas(<<"h","a","n","d","l","e">>) /\ ~Contains(<<"h","a","n","d","l","e">>, GoalText)
    /\ Lower(GoalText) # GoalText
    /\ HasSuggestion(outcome.val, "Extend Capabilities")

\* C20: in JSON mode format_analysis is lossless: json.loads of the
\* rendered text gives a dict equal to the Analysis that was rendered, for
\* every Analysis analyze_flow_data returns, nodes without id included.
C20_JsonRoundTrip ==
    pc = "rendered" /\ arg_format = "json" =>
        json_loads(output) = Return(AnalysisDoc(outcome.val))

\* a rendered Analysis with a node whose id is missing and whose label
\* holds quotation marks, with suggestions and best-practice notes
C20_Witness ==
    /\ pc = "rendered" /\ arg_format = "json"
    /\ json_loads(output).exc = "none"
    /\ \E i \in 1..Len(outcome.val.nodes) :
          /\ outcome.val.nodes[i].id = JNull
          /\ outcome.val.nodes[i].label.t = "str"
          /\ \E j \in 1..Len(outcome.val.nodes[i].label.v) :
                outcome.val.nodes[i].label.v[j] = Quote
    /\ Len(outcome.val.suggestions) > 0
    /\ Len(outcome.val.best_practices) > 0

\* the category names in lexical order
LexicalCategories ==
    <<"agent", "cache", "chain", "document_loader", "embeddings", "llm",
      "memory", "moderation", "other", "output_parser", "prompt", "retriever",
      "text_splitter", "tool", "vector_store">>

\* the lines of the rendered text between the heading "## Nodes Overview"
\* and the empty line that closes the section
OverviewStart(lines) ==
    CHOOSE i \in 1..Len(lines) : lines[i][1] = "## Nodes Overview"

OverviewEnd(lines) ==
    CHOOSE i \in (OverviewStart(lines) + 1)..Len(lines) :
        /\ lines[i][1] = ""
        /\ \A j \in (OverviewStart(lines) + 1)..(i - 1) : lines[j][1] # ""

RenderedOverview(lines) ==
    SubSeq(lines, OverviewStart(lines) + 1, OverviewEnd(lines) - 1)

\* the heading of a category and the line of a node
CategoryHeading(cat) == <<"### ", TitleCase(CategoryText[cat])>>
NodeLine(node) == <<"- ", node.label, " (", node.type, ")">>

\* the groups of the categories cats[k..]: each heading followed by the
\* nodes of that category in their order in nodes
RECURSIVE GroupedFrom(_, _, _)
GroupedFrom(nodes, cats, k) ==
    IF k > Len(cats) THEN <<>>
    ELSE LET mine == SelectSeq(nodes, LAMBDA n : n.category = cats[k]) IN
         <<CategoryHeading(cats[k])>>
           \o [i \in 1..Len(mine) |-> NodeLine(mine[i])]
           \o GroupedFrom(nodes, cats, k + 1)

\* C21: markdown mode lists the nodes grouped by category, the categories
\* in lexical order of their name, the nodes of one category in their order
\* in Analysis.nodes, every node exactly once.
C21_NodesGroupedInLexicalOrder ==
    pc = "rendered" /\ arg_format = "markdown" /\ Len(outcome.val.nodes) > 0 =>
        LET nodes == outcome.val.nodes
            present == SelectSeq(LexicalCategories,
                                 LAMBDA c : \E i \in 1..Len(nodes) : nodes[i].category = c)
            shown == RenderedOverview(output)
        IN
        /\ shown = GroupedFrom(nodes, present, 1)
        /\ Len(SelectSeq(shown, LAMBDA l : l[1] = "- ")) = Len(nodes)
        /\ \A i \in 1..Len(nodes) : nodes[i].category \in
              { LexicalCategories[k] : k \in 1..Len(LexicalCategories) }

\* two nodes whose categories appear in the other order in the rendering
C21_Witness ==
    /\ pc = "rendered" /\ arg_format = "markdown"
    /\ Len(outcome.val.nodes) = 2
    /\ outcome.val.nodes[1].category = "memory"
    /\ outcome.val.nodes[2].category = "llm"
    /\ RenderedOverview(output)[1] = CategoryHeading("llm")
    /\ RenderedOverview(output)[3] = CategoryHeading("memory")

\* some line of the rendered text starts with this part
HasLine(lines, first) == \E i \in 1..Len(lines) : lines[i][1] = first

\* the indices of the suggestion headings of the rendered text, in order
SuggestionHeads(lines) ==
    SelectSeq([i \in 1..Len(lines) |-> i],
              LAMBDA i : Len(lines[i]) = 4 /\ lines[i][1] = "### ")

\* the lines of the suggestion whose heading is line h, up to the empty
\* line that closes it
SuggestionBlock(lines, h) ==
    LET last == CHOOSE j \in h..Len(lines) :
                    /\ lines[j][1] = ""
                    /\ \A m \in h..(j - 1) : lines[m][1] # ""
    IN SubSeq(lines, h, last)

\* the suggestions in the order of the rendering
InRenderedOrder(suggestions) ==
    WithPriority(suggestions, "high") \o WithPriority(suggestions, "medium")

\* C22: markdown mode emits the sections "Nodes Overview", "Potential
\* Issues", "Improvement Suggestions" and "Best Practices" exactly when the
\* sequence of the Analysis they show is not empty, and inside a suggestion
\* the recommendations exactly when tips is present and not empty, the
\* suggested nodes exactly when nodes_to_add is.
C22_SectionsIffNonEmpty ==
    pc = "rendered" /\ arg_format = "markdown" =>
        LET a == outcome.val
            heads == SuggestionHeads(output)
            shown == InRenderedOrder(a.suggestions)
        IN
        /\ HasLine(output, "## Nodes Overview") <=> Len(a.nodes) > 0
        /\ HasLine(output, "## [!] Potential Issues") <=> Len(a.potential_issues) > 0
        /\ HasLine(output, "## Improvement Suggestions") <=> Len(a.suggestions) > 0
        /\ HasLine(output, "## Best Practices") <=> Len(a.best_practices) > 0
        /\ Len(heads) = Len(shown)
        /\ \A k \in 1..Len(heads) :
              LET block == SuggestionBlock(output, heads[k]) IN
              /\ output[heads[k]][4] = shown[k].title
              /\ HasLine(block, "\n**Recommendations:**")
                    <=> ("tips" \in DOMAIN shown[k] /\ Len(shown[k].tips) > 0)
              /\ HasLine(block, "\n**Suggested nodes**: ")
                    <=> ("nodes_to_add" \in DOMAIN shown[k]
                         /\ Len(shown[k].nodes_to_add) > 0)

\* a rendering with nodes and suggestions, some with tips and some with
\* nodes to add, and without issues and best practices
C22_Witness ==
    /\ pc = "rendered" /\ arg_format = "markdown"
    /\ Len(outcome.val.nodes) > 0
    /\ outcome.val.best_practices = <<>>
    /\ \E i, j \in 1..Len(outcome.val.suggestions) :
          /\ "tips" \in DOMAIN outcome.val.suggestions[i]
          /\ "nodes_to_add" \in DOMAIN outcome.val.suggestions[j]
    /\ HasLine(output, "## Improvement Suggestions")
    /\ ~HasLine(output, "## Best Practices")
    /\ ~HasLine(output, "## [!] Potential Issues")

(***************************************************************************)
(* Concurrent analyses.  Every object lives at an address of the heap; an  *)
(* analysis runs statement by statement on its own locals, and the         *)
(* statements of different analyses interleave freely.                     *)
(***************************************************************************)
MaxTasks == 2
Tasks == 1..MaxTasks

\* Flow records for the concurrent analyses: a corrupted one, a public
\* agent flow of one node, a chat flow of two nodes
TaskFlowValues ==
    << JDict(("name" :> JStr(<<"B","o","t">>)) @@ ("type" :> JStr(<<"C","H","A","T","F","L","O","W">>))
             @@ ("isPublic" :> JBool(FALSE))
             @@ ("flowData" :> JStr(<<"i","n","v","a","l","i","d"," ","j","s","o","n"," ","{">>))),
       JDict(("name" :> JStr(<<"B","o","t">>)) @@ ("type" :> JStr(<<"A","G","E","N","T","F","L","O","W">>))
             @@ ("isPublic" :> JBool(TRUE))
             @@ ("flowData" :> JText(JDict("nodes" :> JList(<<RuleNodes[1]>>)
                                           @@ "edges" :> JList(<<>>))))),
       JDict(("name" :> JStr(<<"B","o","t">>)) @@ ("type" :> JStr(<<"C","H","A","T","F","L","O","W">>))
             @@ ("isPublic" :> JBool(FALSE))
             @@ ("flowData" :> JText(JDict("nodes" :> JList(<<RuleNodes[2], RuleNodes[8]>>)
                                           @@ "edges" :> JList(<<EdgeEntry>>))))) >>

TaskGoals == << JNull, JStr(<<"I"," ","w","a","n","t"," ","b","e","t","t","e","r"," ","a","c","c","u","r","a","c","y"," ","a","n","d"," ","f","a","s","t","e","r"," ","r","e","s","p","o","n","s","e","s">>) >>

\* the locals of an invocation that has not started
NewFrame(flow_addr, goal) ==
    [pc |-> "start", flow |-> flow_addr, improvement_goal |-> goal,
     analysis |-> 0, nodes |-> <<>>, edges |-> <<>>, i |-> 0,
     categories_found |-> {}, rule |-> 0,
     format_type |-> Unset, output |-> Unset]

Allocate_shared(h) == MaxTasks + 1

\* the address of a new object, and the heap with an object stored there
Allocate(h) == Len(h) + 1
Store(h, addr, obj) ==
    IF addr = Len(h) + 1 THEN Append(h, obj) ELSE [h EXCEPT ![addr] = obj]

\* the rules in the order of the source, one if-statement each
RuleAt(r, a, c) ==
    CASE r = 1 -> RuleMemory(a, c)
      [] r = 2 -> RuleVector(a, c)
      [] r = 3 -> RuleTools(a, c)
      [] r = 4 -> RuleParser(a, c)
      [] r = 5 -> RulePrompt(a, c)
      [] r = 6 -> RuleModeration(a, c)
      [] r = 7 -> RuleCache(a, c)
      [] r = 8 -> RuleAccuracy(a, c)
      [] r = 9 -> RuleSpeed(a, c)
      [] r = 10 -> RuleCapability(a, c)

LastRule == 10

AnalysisAfterFormat_sort_in_place(analysis, format_type) ==
    IF format_type = "markdown"
    THEN [analysis EXCEPT !.suggestions = SortedByPriority(@)]
    ELSE analysis

\* the analysis after format_analysis ran on it: no statement of
\* format_analysis assigns to the analysis or to one of its lists;
\* sorted() builds a new list and categories is a local dict
AnalysisAfterFormat(analysis, format_type) == analysis

\* the tasks start on flow records of the heap, two tasks possibly on the
\* same record
InitTasks ==
    /\ pc = "tasks"
    /\ node_type = Unset /\ category = Unset
    /\ arg_flow = Unset /\ arg_goal = Unset
    /\ outcome = Unset /\ arg_format = Unset /\ output = Unset
    /\ call = Unset /\ requests = Unset /\ reply = Unset /\ result = Unset
    /\ \E k \in 0..(Len(TaskFlowValues) - 1) :
          heap = [a \in Tasks |-> TaskFlowValues[((a + k) % Len(TaskFlowValues)) + 1]]
    /\ \E src \in [Tasks -> Tasks] :
          /\ \A p \in Tasks : src[p] \in {1, p}
          /\ task = [p \in Tasks |->
                        NewFrame(src[p], TaskGoals[(p % Len(TaskGoals)) + 1])]

\* lines 224-233: the analysis dict is created
TaskStart(p) ==
    /\ task[p].pc = "start"
    /\ LET flow == heap[task[p].flow]
           addr == Allocate(heap)
       IN /\ heap' = Store(heap, addr,
                           NewAnalysis(flow, Get(flow, "type", JStr(<<"C","H","A","T","F","L","O","W">>))))
          /\ task' = [task EXCEPT ![p].analysis = addr, ![p].pc = "decode"]
    /\ UNCHANGED <<pc, analysisVars, toolVars>>

\* lines 235-243: flowData is decoded; on failure the issue is recorded
\* and the analysis returned
TaskDecode(p) ==
    /\ task[p].pc = "decode"
    /\ LET flow == heap[task[p].flow]
           decoded == json_loads(Get(flow, "flowData", JStr(<<"{","}">>)))
       IN IF decoded.exc # "none"
          THEN /\ heap' = [heap EXCEPT ![task[p].analysis] = CorruptedAnalysis(@)]
               /\ task' = [task EXCEPT ![p].pc = "done"]
          ELSE /\ heap' = heap
               /\ task' = [task EXCEPT
                              ![p].nodes = Get(decoded.val, "nodes", JList(<<>>)).v,
                              ![p].edges = Get(decoded.val, "edges", JList(<<>>)).v,
                              ![p].i = 1,
                              ![p].pc = "loop"]
    /\ UNCHANGED <<pc, analysisVars, toolVars>>

\* lines 246-256: one pass of the node loop
TaskNode(p) ==
    /\ task[p].pc = "loop"
    /\ task[p].i <= Len(task[p].nodes)
    /\ LET e == NodeEntry(task[p].nodes[task[p].i]).val IN
       /\ heap' = [heap EXCEPT ![task[p].analysis].nodes = Append(@, e)]
       /\ task' = [task EXCEPT ![p].categories_found = @ \cup {e.category},
                               ![p].i = @ + 1]
    /\ UNCHANGED <<pc, analysisVars, toolVars>>

\* line 258: the summary, after the last node
TaskSummary(p) ==
    /\ task[p].pc = "loop"
    /\ task[p].i > Len(task[p].nodes)
    /\ heap' = [heap EXCEPT ![task[p].analysis].summary =
                   Text(<<"Flow contains ", Len(task[p].nodes),
                          " nodes and ", Len(task[p].edges), " connections.">>)]
    /\ task' = [task EXCEPT ![p].rule = 1, ![p].pc = "rules"]
    /\ UNCHANGED <<pc, analysisVars, toolVars>>

\* lines 260-399: the next if-statement; after the last one the analysis
\* is returned
TaskRule(p) ==
    /\ task[p].pc = "rules"
    /\ LET flow == heap[task[p].flow]
           c == [categories_found |-> task[p].categories_found,
                 is_agent_flow |-> IsAgentFlow(Get(flow, "type", JStr(<<"C","H","A","T","F","L","O","W">>))),
                 goal_lower |-> GoalLower(task[p].improvement_goal),
                 improvement_goal |-> task[p].improvement_goal,
                 flow |-> flow]
       IN heap' = [heap EXCEPT ![task[p].analysis] = RuleAt(task[p].rule, @, c)]
    /\ task' = [task EXCEPT ![p].rule = @ + 1,
                            ![p].pc = IF task[p].rule = LastRule THEN "done" ELSE "rules"]
    /\ UNCHANGED <<pc, analysisVars, toolVars>>

\* the caller renders the analysis it got back
TaskRender(p) ==
    /\ task[p].pc = "done"
    /\ \E format_type \in ResponseFormats :
          /\ task' = [task EXCEPT
                         ![p].format_type = format_type,
                         ![p].output = format_analysis(heap[task[p].analysis], format_type),
                         ![p].pc = "rendered"]
          /\ heap' = [heap EXCEPT ![task[p].analysis] = AnalysisAfterFormat(@, format_type)]
    /\ UNCHANGED <<pc, analysisVars, toolVars>>

NextTasks ==
    \E p \in Tasks :
        \/ TaskStart(p)
        \/ TaskDecode(p)
        \/ TaskNode(p)
        \/ TaskSummary(p)
        \/ TaskRule(p)
        \/ TaskRender(p)

SpecTasks == InitTasks /\ [][NextTasks]_vars

\* the analysis a task holds is the one analyze_flow_data returns for its
\* arguments when it runs alone
SameAsAlone(p) ==
    heap[task[p].analysis] =
        analyze_flow_data(heap[task[p].flow], task[p].improvement_goal).val

\* C23: interleaved analyses share no state: each invocation builds an
\* Analysis record of its own, and under every interleaving each one
\* returns the Analysis it returns when run alone.
C23_InterleavedAnalysesAreIndependent ==
    /\ \A p, q \in Tasks :
          p # q /\ task[p].analysis # 0 /\ task[q].analysis # 0
             => task[p].analysis # task[q].analysis
    /\ \A p \in Tasks :
          task[p].pc \in {"done", "rendered"} => SameAsAlone(p)

\* two analyses of one flow record interleaved: the first created its
\* analysis first and is still applying its rules when the second, which
\* started later, has returned
C23_Witness ==
    /\ task[1].flow = task[2].flow
    /\ task[1].analysis # 0 /\ task[1].analysis < task[2].analysis
    /\ task[1].pc = "rules" /\ task[1].rule > 1
    /\ task[2].pc = "done"
    /\ Len(heap[task[2].analysis].nodes) > 0
    /\ Len(heap[task[2].analysis].suggestions) > 0

\* the titles are in the order of the rules
InRuleOrder(titles) ==
    titles = SelectSeq(SuggestionOrder,
                       LAMBDA t : \E i \in 1..Len(titles) : titles[i] = t)

\* C24: analyze_flow_data and format_analysis leave their inputs unchanged:
\* no step of an analysis changes a flow record (name, type, isPublic,
\* flowData), and rendering does not change the Analysis; in particular
\* the suggestions keep their rule order after a markdown rendering.
C24_InputsUnchanged ==
    [][ /\ \A a \in Tasks : heap'[a] = heap[a]
        /\ \A p \in Tasks :
              task[p].pc = "done" /\ task'[p].pc = "rendered" =>
                 /\ heap'[task[p].analysis] = heap[task[p].analysis]
                 /\ InRuleOrder(Titles(heap'[task[p].analysis].suggestions))
      ]_vars

\* after a markdown rendering the Analysis still has a medium-priority
\* suggestion before a high-priority one, and its flow record is one of
\* the records given
C24_Witness ==
    \E p \in Tasks :
        /\ task[p].pc = "rendered"
        /\ task[p].format_type = "markdown"
        /\ \E i, j \in 1..Len(heap[task[p].analysis].suggestions) :
              /\ i < j
              /\ heap[task[p].analysis].suggestions[i].priority = "medium"
              /\ heap[task[p].analysis].suggestions[j].priority = "high"
        /\ \E k \in 1..Len(TaskFlowValues) : heap[task[p].flow] = TaskFlowValues[k]

(***************************************************************************)
(* The transport: exceptions, make_api_request and handle_api_error        *)
(* (src/flowise_mcp/client.py).  A message is the sequence of its parts,   *)
(* its first word a part of its own.                                       *)
(***************************************************************************)
\* the classes an exception class derives from, itself included
Bases(cls) ==
    CASE cls = "HTTPStatusError" -> {"HTTPStatusError", "HTTPError", "Exception"}
      [] cls = "TimeoutException" ->
            {"TimeoutException", "TransportError", "HTTPError", "Exception"}
      [] cls = "ConnectTimeout" ->
            {"ConnectTimeout", "TimeoutException", "TransportError", "HTTPError", "Exception"}
      [] cls = "ReadTimeout" ->
            {"ReadTimeout", "TimeoutException", "TransportError", "HTTPError", "Exception"}
      [] cls = "ConnectError" ->
            {"ConnectError", "NetworkError", "TransportError", "HTTPError", "Exception"}
      [] cls = "ReadError" ->
            {"ReadError", "NetworkError", "TransportError", "HTTPError", "Exception"}
      [] cls = "FlowiseClientError" -> {"FlowiseClientError", "Exception"}
      [] cls = "ConnectionError" -> {"ConnectionError", "FlowiseClientError", "Exception"}
      [] cls = "AuthenticationError" -> {"AuthenticationError", "FlowiseClientError", "Exception"}
      [] cls = "JSONDecodeError" -> {"JSONDecodeError", "ValueError", "Exception"}
      [] OTHER -> {cls, "Exception"}

\* isinstance(e, cls)
IsInstance(e, cls) == cls \in Bases(e.type)

\* an exception: its class, the status and body of the response it
\* carries (HTTPStatusError only) and str(e)
Exc(type, msg) == [type |-> type, status |-> 0, text |-> <<>>, msg |-> msg]
HTTPStatusError(status, text) ==
    [type |-> "HTTPStatusError", status |-> status, text |-> text,
     msg |-> <<"Client or server error '", status, "'">>]

\* the outcome of code that may raise: the value or the exception
Returned(x) == [ok |-> TRUE, val |-> x, e |-> Exc("none", <<>>)]
Raised(e) == [ok |-> FALSE, val |-> <<>>, e |-> e]

\* a str given by the parts of its f-string or literal
PyText(parts) == [t |-> "text", v |-> parts]
\* "\\n".join(lines)
PyLines(lines) == [t |-> "lines", v |-> lines]
\* isinstance(x, str) for what a tool returns
IsPyStr(x) == x.t \in {"text", "lines", "str", "repr", "json_text", "json_tokens"}

handle_api_error_generic(e) == PyText(<<"Error", ": ", e.type, ": ", e.msg>>)

\* handle_api_error(e): the message, its first word and the words that
\* name a kind of failure parts of their own
handle_api_error(e) ==
  PyText(
    IF IsInstance(e, "HTTPStatusError")
    THEN CASE e.status = 401 ->
                 <<"Error", ": Authentication failed. Please check your ", "FLOWISE_API_KEY",
                   " environment variable.">>
           [] e.status = 403 ->
                 <<"Error", ": Permission denied. Your API key may not have access to this resource.">>
           [] e.status = 404 ->
                 <<"Error", ": Resource not found. Please verify the flow ID is correct.">>
           [] e.status = 429 ->
                 <<"Error", ": Rate limit exceeded. Please wait before making more requests.">>
           [] e.status \notin {401, 403, 404, 429} /\ e.status >= 500 ->
                 <<"Error", ": Flowise server error (status ", e.status,
                   "). Check if Flowise is running.">>
           [] OTHER ->
                 <<"Error", ": API request failed with status ", e.status, ": ", e.text>>
    ELSE IF IsInstance(e, "TimeoutException")
    THEN <<"Error", ": Request ", "timed out",
           ". The Flowise server may be overloaded or unreachable.">>
    ELSE IF IsInstance(e, "ConnectError")
    THEN <<"Error", ": ", "Could not connect",
           " to Flowise. Verify FLOWISE_BASE_URL and that Flowise is running.">>
    ELSE <<"Error", ": ", e.type, ": ", e.msg>>)

\* What the remote service and the network can do with a request: answer
\* with a status, a content type and a body, or fail in the transport.
OkReply(body) == [kind |-> "response", status |-> 200, is_json |-> TRUE, body |-> body]
TextReply(text) == [kind |-> "response", status |-> 200, is_json |-> FALSE, body |-> JStr(text)]
NoContentReply == [kind |-> "response", status |-> 204, is_json |-> FALSE, body |-> JStr(<<>>)]
StatusReply(status, text) ==
    [kind |-> "response", status |-> status, is_json |-> FALSE, body |-> JStr(text)]
FailedReply(type) == [kind |-> type, status |-> 0, is_json |-> FALSE, body |-> JStr(<<>>)]

\* response.raise_for_status() raises for these
IsErrorStatus(status) == status >= 400

\* make_api_request once the request was sent and r came back
make_api_request(r) ==
    IF r.kind = "response"
    THEN IF IsErrorStatus(r.status)
         THEN Raised(Exc("FlowiseClientError",
                         <<"API request failed with status ", r.status, ": ", r.body.v>>))
         ELSE IF r.status = 204 THEN Returned(JDict("success" :> JBool(TRUE)))
         ELSE IF r.is_json THEN Returned(r.body)
         ELSE Returned(r.body)
    ELSE IF IsInstance(Exc(r.kind, <<>>), "TimeoutException")
    THEN Raised(Exc("ConnectionError", <<"Request timed out">>))
    ELSE IF IsInstance(Exc(r.kind, <<>>), "ConnectError")
    THEN Raised(Exc("ConnectionError",
                    <<"Failed to connect to Flowise: ", "All connection attempts failed">>))
    ELSE Raised(Exc(r.kind, <<"transport failure">>))

TryExcept_client_errors(body) ==
    IF body.ok THEN Returned(body.val)
    ELSE IF IsInstance(body.e, "FlowiseClientError") THEN Returned(handle_api_error(body.e))
    ELSE Raised(body.e)

\* try: ... except Exception as e: return handle_api_error(e)
TryExcept(body) ==
    IF body.ok THEN Returned(body.val)
    ELSE IF IsInstance(body.e, "Exception") THEN Returned(handle_api_error(body.e))
    ELSE Raised(body.e)

(***************************************************************************)
(* Python operations on the objects a response decodes to                  *)
(***************************************************************************)
\* type(x).__name__
TypeName(x) ==
    CASE x.t \in {"str", "json_text"} -> "str"
      [] x.t = "null" -> "NoneType"
      [] x.t = "bool" -> "bool"
      [] x.t = "num" -> "int"
      [] x.t = "list" -> "list"
      [] x.t = "dict" -> "dict"

\* x.get on an object that has none
NoGet(x) == Exc("AttributeError", <<"'", TypeName(x), "' object has no attribute 'get'">>)
\* for ... in x on an object that cannot be walked
NotIterable(x) == Exc("TypeError", <<"'", TypeName(x), "' object is not iterable">>)

\* str(x): a str is itself, any other object its printed form
PyStr(x) == IF IsStr(x) THEN x ELSE [t |-> "repr", v |-> x]

\* what  for item in x  yields: the elements of a list, the keys of a
\* dict and the characters of a str (str objects), or the TypeError
Iterate(x) ==
    CASE x.t = "list" -> Returned(x.v)
      [] x.t = "dict" ->
            Returned(SelectSeq([i \in 1..Len(KeyOrder) |-> JStr(<<KeyOrder[i]>>)],
                               LAMBDA k : k.v[1] \in DOMAIN x.v))
      [] x.t = "str" -> Returned([i \in 1..Len(x.v) |-> JStr(<<x.v[i]>>)])
      [] x.t = "json_text" -> Returned(<<JStr(<<"{">>)>>)
      [] OTHER -> Raised(NotIterable(x))

\* for item in x  where the body calls item.get: the items walked, or
\* the exception at the first item without .get
Dicts(x) ==
    LET items == Iterate(x) IN
    IF ~items.ok THEN items
    ELSE IF \E i \in 1..Len(items.val) : ~IsDict(items.val[i])
    THEN Raised(NoGet(items.val[CHOOSE i \in 1..Len(items.val) :
                                   /\ ~IsDict(items.val[i])
                                   /\ \A j \in 1..(i - 1) : IsDict(items.val[j])]))
    ELSE items

\* the character chr(96), which delimits code in markdown
Backquote == [t |-> "chr", v |-> 96]

\* s[:n]
Take(s, n) == IF Len(s) <= n THEN s ELSE SubSeq(s, 1, n)

(***************************************************************************)
(* format_flow_list and format_flow_detail (src/flowise_mcp/utils.py)      *)
(***************************************************************************)
\* one entry of simplified_flows
SimplifiedFlow(flow) ==
    JDict("id" :> Get(flow, "id", JNull)
          @@ "name" :> Get(flow, "name", JNull)
          @@ "type" :> Get(flow, "type", JStr(<<"C","H","A","T","F","L","O","W">>))
          @@ "deployed" :> Get(flow, "deployed", JBool(FALSE))
          @@ "isPublic" :> Get(flow, "isPublic", JBool(FALSE))
          @@ "category" :> Get(flow, "category", JNull)
          @@ "updatedDate" :> Get(flow, "updatedDate", JNull))

\* the lines of one flow of the markdown listing
FlowLines(flow) ==
    LET flow_type == Get(flow, "type", JStr(<<"C","H","A","T","F","L","O","W">>)) IN
    << Text(<<"## ", IF IsAgentFlow(flow_type) THEN "[AGENT]" ELSE "[CHAT]", " ",
              Get(flow, "name", JStr(<<"U","n","n","a","m","e","d">>))>>),
       Text(<<"- **ID**: ", Backquote, Get(flow, "id", JStr(<<"N","/","A">>)), Backquote>>),
       Text(<<"- **Type**: ", flow_type>>),
       Text(<<"- **Deployed**: ",
              IF Truthy(Get(flow, "deployed", JNull)) THEN "[YES]" ELSE "[NO]">>),
       Text(<<"- **Public**: ",
              IF Truthy(Get(flow, "isPublic", JNull)) THEN "[PUBLIC]" ELSE "[PRIVATE]">>) >>
      \o (IF Truthy(Get(flow, "category", JNull))
          THEN <<Text(<<"- **Categories**: ", Get(flow, "category", JNull)>>)>> ELSE <<>>)
      \o << Text(<<"- **Updated**: ", Get(flow, "updatedDate", JStr(<<"N","/","A">>))>>),
            Text(<<"">>) >>

\* format_flow_list(flows, format_type)
format_flow_list(flows, format_type) ==
    LET walked == Dicts(flows) IN
    IF ~walked.ok THEN walked
    ELSE LET simplified_flows ==
                 [i \in 1..Len(walked.val) |-> SimplifiedFlow(walked.val[i])]
         IN
         IF format_type = "json" THEN Returned(json_dumps(JList(simplified_flows)))
         ELSE IF ~Truthy(flows) THEN Returned(PyText(<<"No flows found.">>))
         ELSE Returned(PyLines(<<Text(<<"# Flowise Flows\n">>)>>
                  \o FlattenLines([i \in 1..Len(simplified_flows) |->
                                      FlowLines(simplified_flows[i])])))

\* one entry of nodes_summary
NodeSummary(node) ==
    LET node_data == Get(node, "data", JDict(EmptyMap)) IN
    JDict("id" :> Get(node, "id", JNull)
          @@ "type" :> Get(node_data, "type", Get(node, "type", JStr(<<"U","n","k","n","o","w","n">>)))
          @@ "label" :> Get(node_data, "label", Get(node_data, "name", JStr(<<"U","n","n","a","m","e","d">>)))
          @@ "category" :> Get(node_data, "category", JStr(<<"o","t","h","e","r">>)))

\* nodes_summary after the try block of format_flow_detail: a text that
\* is no JSON and a nodes value that cannot be walked leave it as it is,
\* an object without .get raises AttributeError, which is not caught
NodesSummary(flow) ==
    LET flow_data_str == Get(flow, "flowData", JStr(<<"{","}">>))
        decoded == IF IsStr(flow_data_str) THEN json_loads(flow_data_str)
                   ELSE Return(flow_data_str)
    IN
    IF decoded.exc # "none" THEN Returned(<<>>)
    ELSE IF ~IsDict(decoded.val) THEN Raised(NoGet(decoded.val))
    ELSE LET nodes == Get(decoded.val, "nodes", JList(<<>>))
             items == Iterate(nodes)
         IN
         IF ~items.ok THEN Returned(<<>>)
         ELSE IF \E i \in 1..Len(items.val) :
                    ~IsDict(items.val[i])
                    \/ ~IsDict(Get(items.val[i], "data", JDict(EmptyMap)))
         THEN Raised(Exc("AttributeError", <<"object has no attribute 'get'">>))
         ELSE Returned([i \in 1..Len(items.val) |-> NodeSummary(items.val[i])])

\* format_flow_detail(flow, format_type)
format_flow_detail(flow, format_type) ==
    IF ~IsDict(flow) THEN Raised(NoGet(flow))
    ELSE
    LET flow_type == Get(flow, "type", JStr(<<"C","H","A","T","F","L","O","W">>))
        nodes_summary == NodesSummary(flow)
    IN
    IF ~nodes_summary.ok THEN nodes_summary
    ELSE IF format_type = "json"
    THEN Returned(json_dumps(JDict(
            "id" :> Get(flow, "id", JNull)
            @@ "name" :> Get(flow, "name", JNull)
            @@ "type" :> flow_type
            @@ "deployed" :> Get(flow, "deployed", JBool(FALSE))
            @@ "isPublic" :> Get(flow, "isPublic", JBool(FALSE))
            @@ "category" :> Get(flow, "category", JNull)
            @@ "createdDate" :> Get(flow, "createdDate", JNull)
            @@ "updatedDate" :> Get(flow, "updatedDate", JNull)
            @@ "nodes" :> JList(nodes_summary.val))))
    ELSE Returned(PyLines(
           << Text(<<"# ", IF IsAgentFlow(flow_type) THEN "[AGENT]" ELSE "[CHAT]", " ",
                     Get(flow, "name", JStr(<<"U","n","n","a","m","e","d">>))>>),
              Text(<<"">>),
              Text(<<"**ID**: ", Backquote, Get(flow, "id", JStr(<<"N","/","A">>)), Backquote>>),
              Text(<<"**Type**: ", flow_type>>),
              Text(<<"**Deployed**: ",
                     IF Truthy(Get(flow, "deployed", JNull)) THEN "Yes" ELSE "No">>),
              Text(<<"**Public**: ",
                     IF Truthy(Get(flow, "isPublic", JNull)) THEN "Yes" ELSE "No">>),
              Text(<<"**Created**: ", Get(flow, "createdDate", JStr(<<"N","/","A">>))>>),
              Text(<<"**Updated**: ", Get(flow, "updatedDate", JStr(<<"N","/","A">>))>>) >>
           \o (IF Truthy(Get(flow, "category", JNull))
               THEN <<Text(<<"**Categories**: ", Get(flow, "category", JNull)>>)>>
               ELSE <<>>)
           \o (IF nodes_summary.val # <<>>
               THEN <<Text(<<"">>), Text(<<"## Nodes">>)>>
                    \o [i \in 1..Len(nodes_summary.val) |->
                           Text(<<"- **", nodes_summary.val[i].v["label"], "** (",
                                  nodes_summary.val[i].v["type"], ")">>)]
               ELSE <<>>)))

(***************************************************************************)
(* The tools (src/flowise_mcp/server.py).  Each tool is given by the       *)
(* request it sends, if any, and by the statements that follow the         *)
(* response inside its try block.                                          *)
(***************************************************************************)
\* a call of make_api_request(endpoint, method, data, params)
Req(method, endpoint, data, params) ==
    [method |-> method, endpoint |-> endpoint, data |-> data, params |-> params]

\* what a tool does before it awaits a response: it sends req, or it
\* returns early
Sends(req) == [sent |-> TRUE, req |-> req, early |-> PyText(<<>>)]
ReturnsEarly(text) ==
    [sent |-> FALSE, req |-> Req("GET", <<>>, JNull, JNull), early |-> text]

\* flowise_list_flows, after the response
flowise_list_flows(params, flows) ==
    IF Truthy(params.flow_type)
    THEN LET walked == Dicts(flows) IN
         IF ~walked.ok THEN walked
         ELSE format_flow_list(
                  JList(SelectSeq(walked.val,
                                  LAMBDA f : Get(f, "type", JNull) = params.flow_type)),
                  params.response_format)
    ELSE format_flow_list(flows, params.response_format)

\* flowise_get_flow, after the response
flowise_get_flow(params, flow) == format_flow_detail(flow, params.response_format)

predict_override_config_session_wins(params) ==
    LET own == IF Truthy(params.session_id) THEN "sessionId" :> params.session_id
               ELSE EmptyMap
    IN IF Truthy(params.override_config) THEN own @@ params.override_config.v ELSE own

\* override_config of flowise_predict: the session id, then
\* override_config.update(params.override_config)
predict_override_config(params) ==
    LET own == IF Truthy(params.session_id) THEN "sessionId" :> params.session_id
               ELSE EmptyMap
    IN IF Truthy(params.override_config) THEN params.override_config.v @@ own ELSE own

\* payload of flowise_predict
predict_payload(params) ==
    LET override_config == predict_override_config(params) IN
    JDict(("question" :> params.question)
          @@ (IF params.streaming THEN "streaming" :> JBool(TRUE) ELSE EmptyMap)
          @@ (IF DOMAIN override_config # {}
              THEN "overrideConfig" :> JDict(override_config) ELSE EmptyMap))

\* flowise_predict, after the response
flowise_predict(params, response) ==
    IF IsDict(response)
    THEN IF "text" \in DOMAIN response.v THEN Returned(PyStr(response.v["text"]))
         ELSE IF "json" \in DOMAIN response.v THEN Returned(json_dumps(response.v["json"]))
         ELSE Returned(json_dumps(response))
    ELSE Returned(PyStr(response))

\* flowise_analyze_flow, after the response
flowise_analyze_flow(params, flow) ==
    IF ~IsDict(flow) THEN Raised(NoGet(flow))
    ELSE LET analysis == analyze_flow_data(flow, params.improvement_goal) IN
         IF analysis.exc # "none"
         THEN Raised(Exc(analysis.exc, <<"object has no attribute or length">>))
         ELSE Returned(IF params.response_format = "json"
                       THEN format_analysis(analysis.val, "json")
                       ELSE PyLines(format_analysis(analysis.val, "markdown")))

\* payload of flowise_create_flow
create_payload(params) ==
    JDict(("name" :> params.name) @@ ("flowData" :> params.flow_data)
          @@ ("type" :> params.flow_type)
          @@ (IF params.is_public THEN "isPublic" :> JBool(TRUE) ELSE EmptyMap)
          @@ (IF Truthy(params.category) THEN "category" :> params.category ELSE EmptyMap))

\* the confirmation of flowise_create_flow and flowise_update_flow
Confirmation(done, response) ==
    IF ~IsDict(response) THEN Raised(NoGet(response))
    ELSE Returned(PyText(<<"Flow ", done, " successfully!\n\n**ID**: ", Backquote,
                           Get(response, "id", JNull), Backquote, "\n**Name**: ",
                           Get(response, "name", JNull)>>))

\* flowise_create_flow, after the response
flowise_create_flow(params, response) == Confirmation("created", response)

update_payload_truthy(params) ==
    JDict((IF Truthy(params.name) THEN "name" :> params.name ELSE EmptyMap)
          @@ (IF Truthy(params.flow_data) THEN "flowData" :> params.flow_data ELSE EmptyMap)
          @@ (IF Truthy(params.is_public) THEN "isPublic" :> params.is_public ELSE EmptyMap)
          @@ (IF Truthy(params.category) THEN "category" :> params.category ELSE EmptyMap))

\* payload of flowise_update_flow: every field that is not None
update_payload(params) ==
    JDict((IF params.name # JNull THEN "name" :> params.name ELSE EmptyMap)
          @@ (IF params.flow_data # JNull THEN "flowData" :> params.flow_data ELSE EmptyMap)
          @@ (IF params.is_public # JNull THEN "isPublic" :> params.is_public ELSE EmptyMap)
          @@ (IF params.category # JNull THEN "category" :> params.category ELSE EmptyMap))

\* flowise_update_flow, after the response
flowise_update_flow(params, response) == Confirmation("updated", response)

\* flowise_delete_flow, after the response
flowise_delete_flow(params, response) ==
    Returned(PyText(<<"Flow ", Backquote, params.flow_id, Backquote,
                      " has been deleted successfully.">>))

\* query_params of flowise_get_chat_history
chat_history_params(params) ==
    JDict(("chatflowid" :> params.flow_id)
          @@ (IF Truthy(params.session_id) THEN "sessionId" :> params.session_id
              ELSE EmptyMap))

\* the lines of one message of the chat history
MessageLines(msg) ==
    LET role == Get(msg, "role", JStr(<<"u","n","k","n","o","w","n">>))
        content == Get(msg, "content", JStr(<<>>))
    IN << Text(<<"### ", IF role = JStr(<<"u","s","e","r">>) THEN "[USER]" ELSE "[BOT]", " ",
                 TitleCase(role.v), " (", Get(msg, "createdDate", JStr(<<"N","/","A">>)), ")">>),
          Text(<<Take(content.v, 500), IF Len(content.v) > 500 THEN "..." ELSE "">>),
          Text(<<"">>) >>

\* flowise_get_chat_history, after the response
flowise_get_chat_history(params, messages) ==
    LET limited == IF messages.t = "list" THEN JList(Take(messages.v, params.limit))
                   ELSE messages
    IN
    IF params.response_format = "json" THEN Returned(json_dumps(limited))
    ELSE IF ~Truthy(messages)
    THEN Returned(PyText(<<"No chat history found for this flow.">>))
    ELSE LET msg_list == IF messages.t = "list" THEN limited ELSE JList(<<>>)
             walked == Dicts(msg_list)
         IN
         IF ~walked.ok THEN walked
         ELSE IF \E i \in 1..Len(walked.val) :
                    Get(walked.val[i], "role", JStr(<<>>)).t # "str"
         THEN Raised(Exc("AttributeError", <<"object has no attribute 'title'">>))
         ELSE IF \E i \in 1..Len(walked.val) :
                    Get(walked.val[i], "content", JStr(<<>>)).t # "str"
         THEN Raised(Exc("TypeError", <<"object is not subscriptable">>))
         ELSE Returned(PyLines(<<Text(<<"# Chat History\n">>)>>
                  \o FlattenLines([i \in 1..Len(walked.val) |->
                                      MessageLines(walked.val[i])])))

\* the tools that list a collection: the JSON text of the response, the
\* message for an empty collection, or a heading and the lines of each item
ListTool(params, items, empty, heading, lines) ==
    IF params.response_format = "json" THEN Returned(json_dumps(items))
    ELSE IF ~Truthy(items) THEN Returned(PyText(<<empty>>))
    ELSE IF ~Dicts(items).ok THEN Dicts(items)
    ELSE Returned(PyLines(<<Text(<<heading>>)>> \o FlattenLines(lines)))

\* the line of one variable: its value cut to 50 characters
VariableLines(var) ==
    LET full_value == PyStr(Get(var, "value", JStr(<<>>)))
        display_value == IF full_value.t = "str" /\ Len(full_value.v) > 50
                         THEN <<Take(full_value.v, 50), "...">> ELSE <<full_value>>
    IN << Text(<<"- **", Get(var, "name", JStr(<<"U","n","n","a","m","e","d">>)), "**: ", Backquote>>
               \o display_value \o <<Backquote>>) >>

\* flowise_list_variables, after the response
flowise_list_variables(params, variables) ==
    ListTool(params, variables, "No variables configured.", "# Flowise Variables\n",
             [i \in 1..Len(Dicts(variables).val) |-> VariableLines(Dicts(variables).val[i])])

ToolLines(tool) ==
    <<Text(<<"## ", Get(tool, "name", JStr(<<"U","n","n","a","m","e","d">>))>>)>>
      \o (IF Truthy(Get(tool, "description", JNull))
          THEN <<Text(<<PyStr(Get(tool, "description", JNull))>>)>> ELSE <<>>)
      \o <<Text(<<"">>)>>

\* flowise_list_tools, after the response
flowise_list_tools(params, tools) ==
    ListTool(params, tools, "No custom tools configured.", "# Available Tools\n",
             [i \in 1..Len(Dicts(tools).val) |-> ToolLines(Dicts(tools).val[i])])

\* flowise_ping, after the response
flowise_ping(params, response) ==
    Returned(PyText(<<"Flowise server at ", Backquote, "base_url", Backquote,
                      " is responding.">>))

AssistantLines(assistant) ==
    << Text(<<"## ", Get(assistant, "name", JStr(<<"U","n","n","a","m","e","d">>))>>),
       Text(<<"- **ID**: ", Backquote, Get(assistant, "id", JStr(<<"N","/","A">>)), Backquote>>),
       Text(<<"- **Model**: ", Get(assistant, "model", JStr(<<"N","/","A">>))>>) >>
      \o (IF Truthy(Get(assistant, "description", JNull))
          THEN <<Text(<<"- **Description**: ", Get(assistant, "description", JNull)>>)>>
          ELSE <<>>)
      \o <<Text(<<"">>)>>

\* flowise_list_assistants, after the response
flowise_list_assistants(params, assistants) ==
    ListTool(params, assistants, "No assistants configured.", "# Flowise Assistants\n",
             [i \in 1..Len(Dicts(assistants).val) |-> AssistantLines(Dicts(assistants).val[i])])

\* the lines of a section that walks obj.get(key, []) when it is truthy,
\* lines being the line of each item
SectionLines(obj, key, heading, lines) ==
    LET items == Get(obj, key, JList(<<>>)) IN
    IF ~Truthy(Get(obj, key, JNull)) THEN Returned(<<>>)
    ELSE IF ~Dicts(items).ok THEN Dicts(items)
    ELSE Returned(<<Text(<<"">>), Text(<<heading>>)>> \o lines)

\* flowise_get_assistant, after the response
flowise_get_assistant(params, assistant) ==
    IF params.response_format = "json" THEN Returned(json_dumps(assistant))
    ELSE IF ~IsDict(assistant) THEN Raised(NoGet(assistant))
    ELSE LET items == Dicts(Get(assistant, "tools", JList(<<>>))).val
             tools == SectionLines(assistant, "tools", "## Tools",
                         [i \in 1..Len(items) |->
                             Text(<<"- ", Get(items[i], "type", JStr(<<"U","n","k","n","o","w","n">>))>>)])
         IN
         IF ~tools.ok THEN tools
         ELSE Returned(PyLines(
                << Text(<<"# Assistant: ", Get(assistant, "name", JStr(<<"U","n","n","a","m","e","d">>))>>),
                   Text(<<"">>),
                   Text(<<"**ID**: ", Backquote, Get(assistant, "id", JStr(<<"N","/","A">>)),
                          Backquote>>),
                   Text(<<"**Model**: ", Get(assistant, "model", JStr(<<"N","/","A">>))>>),
                   Text(<<"**Temperature**: ",
                          Get(assistant, "temperature", JStr(<<"N","/","A">>))>>),
                   Text(<<"**Top P**: ", Get(assistant, "top_p", JStr(<<"N","/","A">>))>>) >>
                \o (IF Truthy(Get(assistant, "description", JNull))
                    THEN <<Text(<<"**Description**: ",
                                  Get(assistant, "description", JNull)>>)>>
                    ELSE <<>>)
                \o (IF Truthy(Get(assistant, "instructions", JNull))
                    THEN LET text == PyStr(Get(assistant, "instructions", JNull)) IN
                         << Text(<<"">>), Text(<<"## Instructions">>),
                            Text(<<IF text.t = "str" THEN JStr(Take(text.v, 500))
                                   ELSE text>>) >>
                    ELSE <<>>)
                \o tools.val))

\* query_params of flowise_delete_chat_history, None when empty
delete_chat_history_params(params) ==
    LET query_params ==
            (IF Truthy(params.session_id) THEN "sessionId" :> params.session_id
             ELSE EmptyMap)
            @@ (IF Truthy(params.chat_id) THEN "chatId" :> params.chat_id ELSE EmptyMap)
    IN IF DOMAIN query_params # {} THEN JDict(query_params) ELSE JNull

\* flowise_delete_chat_history, after the response
flowise_delete_chat_history(params, response) ==
    LET scope == IF Truthy(params.session_id)
                 THEN <<"session ", Backquote, params.session_id, Backquote>>
                 ELSE IF Truthy(params.chat_id)
                 THEN <<"chat ", Backquote, params.chat_id, Backquote>>
                 ELSE <<"all messages">>
    IN Returned(PyText(<<"Chat history deleted for flow ", Backquote, params.flow_id,
                         Backquote, " (">> \o scope \o <<").">>))

StoreLines(store) ==
    << Text(<<"## ", Get(store, "name", JStr(<<"U","n","n","a","m","e","d">>))>>),
       Text(<<"- **ID**: ", Backquote, Get(store, "id", JStr(<<"N","/","A">>)), Backquote>>),
       Text(<<"- **Status**: ", Get(store, "status", JStr(<<"N","/","A">>))>>) >>
      \o (IF Truthy(Get(store, "description", JNull))
          THEN <<Text(<<"- **Description**: ", Get(store, "description", JNull)>>)>>
          ELSE <<>>)
      \o << Text(<<"- **Updated**: ", Get(store, "updatedDate", JStr(<<"N","/","A">>))>>),
            Text(<<"">>) >>

\* flowise_list_document_stores, after the response
flowise_list_document_stores(params, stores) ==
    ListTool(params, stores, "No document stores configured.", "# Document Stores\n",
             [i \in 1..Len(Dicts(stores).val) |-> StoreLines(Dicts(stores).val[i])])

\* flowise_get_document_store, after the response
flowise_get_document_store(params, store) ==
    IF params.response_format = "json" THEN Returned(json_dumps(store))
    ELSE IF ~IsDict(store) THEN Raised(NoGet(store))
    ELSE LET items == Dicts(Get(store, "loaders", JList(<<>>))).val
             loaders == SectionLines(store, "loaders", "## Document Loaders",
                           [i \in 1..Len(items) |->
                               Text(<<"- **", Get(items[i], "loaderName", JStr(<<"U","n","k","n","o","w","n">>)),
                                      "**: ", Get(items[i], "status", JStr(<<"N","/","A">>))>>)])
         IN
         IF ~loaders.ok THEN loaders
         ELSE Returned(PyLines(
                << Text(<<"# Document Store: ", Get(store, "name", JStr(<<"U","n","n","a","m","e","d">>))>>),
                   Text(<<"">>),
                   Text(<<"**ID**: ", Backquote, Get(store, "id", JStr(<<"N","/","A">>)), Backquote>>),
                   Text(<<"**Status**: ", Get(store, "status", JStr(<<"N","/","A">>))>>),
                   Text(<<"**Created**: ", Get(store, "createdDate", JStr(<<"N","/","A">>))>>),
                   Text(<<"**Updated**: ", Get(store, "updatedDate", JStr(<<"N","/","A">>))>>) >>
                \o (IF Truthy(Get(store, "description", JNull))
                    THEN <<Text(<<"**Description**: ", Get(store, "description", JNull)>>)>>
                    ELSE <<>>)
                \o loaders.val))

\* payload of flowise_upsert_vector, None when empty
upsert_payload(params) ==
    LET payload ==
            (IF Truthy(params.stop_node_id) THEN "stopNodeId" :> params.stop_node_id
             ELSE EmptyMap)
            @@ (IF Truthy(params.override_config)
                THEN "overrideConfig" :> params.override_config ELSE EmptyMap)
    IN IF DOMAIN payload # {} THEN JDict(payload) ELSE JNull

\* flowise_upsert_vector, after the response
flowise_upsert_vector(params, response) ==
    IF IsDict(response)
    THEN Returned(PyText(
           <<"Vector upsert completed for flow ", Backquote, params.flow_id, Backquote,
             ":\n\n- **Added**: ", Get(response, "numAdded", JNum(0)),
             "\n- **Updated**: ", Get(response, "numUpdated", JNum(0)),
             "\n- **Deleted**: ", Get(response, "numDeleted", JNum(0)),
             "\n- **Skipped**: ", Get(response, "numSkipped", JNum(0))>>))
    ELSE Returned(PyText(<<"Vector upsert completed: ", response>>))

\* the lines of one retrieved document, its content cut to 300 characters
DocLines(doc, i) ==
    LET content == Get(doc, "pageContent", JStr(<<>>)) IN
    << Text(<<"## Document ", i>>),
       Text(<<Take(content.v, 300), IF Len(content.v) > 300 THEN "..." ELSE "">>) >>
      \o (IF Truthy(Get(doc, "metadata", JNull))
          THEN <<Text(<<"*Source: ", Get(doc.v["metadata"], "source", JStr(<<"U","n","k","n","o","w","n">>)),
                        "*">>)>>
          ELSE <<>>)
      \o <<Text(<<"">>)>>

\* flowise_query_vector_store, after the response
flowise_query_vector_store(params, response) ==
    IF ~IsDict(response) THEN Returned(json_dumps(response))
    ELSE LET docs == Get(response, "docs", JList(<<>>)) IN
         IF ~PyLen(docs).exc = "none"
         THEN Raised(Exc("TypeError", <<"object of type '", TypeName(docs), "' has no len()">>))
         ELSE IF docs.t = "dict"
         THEN Raised(Exc("KeyError", <<"slice(None, 10, None)">>))
         ELSE LET first == IF docs.t = "list" THEN JList(Take(docs.v, 10))
                           ELSE JStr(Take(docs.v, 10))
                  walked == Dicts(first)
              IN
              IF ~walked.ok THEN walked
              ELSE IF \E i \in 1..Len(walked.val) :
                         ~IsStr(Get(walked.val[i], "pageContent", JStr(<<>>)))
              THEN Raised(Exc("TypeError", <<"object is not subscriptable">>))
              ELSE IF \E i \in 1..Len(walked.val) :
                         LET metadata == Get(walked.val[i], "metadata", JNull) IN
                         Truthy(metadata) /\ ~IsDict(metadata)
              THEN Raised(Exc("AttributeError", <<"object has no attribute 'get'">>))
              ELSE Returned(PyLines(
                     << Text(<<"# Query Results">>),
                        Text(<<"">>),
                        Text(<<"**Query**: ", params.query>>),
                        Text(<<"**Time**: ", Get(response, "timeTaken", JStr(<<"N","/","A">>)), "ms">>),
                        Text(<<"**Results**: ", PyLen(docs).val, " documents">>),
                        Text(<<"">>) >>
                     \o FlattenLines([i \in 1..Len(walked.val) |->
                                         DocLines(walked.val[i], i)])))

(***************************************************************************)
(* Inputs of the tools: the calls and what the remote service answers      *)
(***************************************************************************)
FlowId == JStr(<<"f","1">>)
SessionIds == {JNull, JStr(<<>>), JStr(<<"s","1">>)}
OverrideConfigs ==
    { JNull, JDict(EmptyMap), JDict("temperature" :> JNum(0)),
      JDict("sessionId" :> JStr(<<"s","2">>) @@ "temperature" :> JNum(0)) }
FlowTypes == { JStr(<<"C","H","A","T","F","L","O","W">>), JStr(<<"A","G","E","N","T","F","L","O","W">>) }

Call(tool, params) == [tool |-> tool, params |-> params]

ToolCalls ==
    { Call("flowise_list_flows", [flow_type |-> ty, response_format |-> fmt]) :
        ty \in {JNull} \cup FlowTypes, fmt \in ResponseFormats }
    \cup { Call("flowise_get_flow", [flow_id |-> FlowId, response_format |-> fmt]) :
             fmt \in ResponseFormats }
    \cup { Call("flowise_predict",
                [flow_id |-> FlowId, question |-> JStr(<<"H","e","l","l","o">>), session_id |-> sid,
                 streaming |-> st, override_config |-> oc]) :
             sid \in SessionIds, st \in BOOLEAN, oc \in OverrideConfigs }
    \cup { Call("flowise_analyze_flow",
                [flow_id |-> FlowId, improvement_goal |-> TaskGoals[g],
                 response_format |-> fmt]) :
             g \in 1..Len(TaskGoals), fmt \in ResponseFormats }
    \cup { Call("flowise_create_flow",
                [name |-> JStr(<<"B","o","t">>), flow_data |-> JStr(<<"{","}">>), flow_type |-> ty,
                 is_public |-> pub, category |-> cat]) :
             ty \in FlowTypes, pub \in BOOLEAN, cat \in {JNull, JStr(<<>>), JStr(<<"a",";","b">>)} }
    \cup { Call("flowise_update_flow",
                [flow_id |-> FlowId, name |-> name, flow_data |-> fd,
                 is_public |-> pub, category |-> cat]) :
             name \in {JNull, JStr(<<>>), JStr(<<"B","o","t">>)}, fd \in {JNull, JStr(<<"{","}">>)},
             pub \in {JNull, JBool(TRUE), JBool(FALSE)}, cat \in {JNull, JStr(<<"a",";","b">>)} }
    \cup { Call("flowise_delete_flow", [flow_id |-> FlowId]) }
    \cup { Call("flowise_get_chat_history",
                [flow_id |-> FlowId, session_id |-> sid, limit |-> limit,
                 response_format |-> fmt]) :
             sid \in {JNull, JStr(<<"s","1">>)}, limit \in {1, 50}, fmt \in ResponseFormats }
    \cup { Call(tool, [response_format |-> fmt]) :
             tool \in {"flowise_list_variables", "flowise_list_tools",
                       "flowise_list_assistants", "flowise_list_document_stores"},
             fmt \in ResponseFormats }
    \cup { Call("flowise_ping", [response_format |-> "markdown"]) }
    \cup { Call("flowise_get_assistant", [assistant_id |-> JStr(<<"a","1">>),
                                          response_format |-> fmt]) :
             fmt \in ResponseFormats }
    \cup { Call("flowise_delete_chat_history",
                [flow_id |-> FlowId, session_id |-> sid, chat_id |-> cid]) :
             sid \in {JNull, JStr(<<"s","1">>)}, cid \in {JNull, JStr(<<"c","1">>)} }
    \cup { Call("flowise_get_document_store", [store_id |-> JStr(<<"d","1">>),
                                               response_format |-> fmt]) :
             fmt \in ResponseFormats }
    \cup { Call("flowise_upsert_vector",
                [flow_id |-> FlowId, override_config |-> oc, stop_node_id |-> stop]) :
             oc \in {JNull, JDict("temperature" :> JNum(0))},
             stop \in {JNull, JStr(<<"n","1">>)} }
    \cup { Call("flowise_query_vector_store",
                [store_id |-> JStr(<<"d","1">>), query |-> JStr(<<"r","e","f","u","n","d","s">>)]) }

ToolNames == { c.tool : c \in ToolCalls }

\* the exceptions handle_api_error is handed when it is called on its own
ErrorStatuses == {400, 401, 403, 404, 418, 429, 500, 502, 503}
ErrorTexts == { <<"U","n","a","u","t","h","o","r","i","z","e","d">>, <<>> }
Exceptions ==
    { HTTPStatusError(status, text) : status \in ErrorStatuses \cup {302}, text \in ErrorTexts }
    \cup { Exc(type, msg) :
             type \in {"TimeoutException", "ConnectTimeout", "ReadTimeout", "ConnectError",
                       "ReadError", "FlowiseClientError", "ConnectionError",
                       "AuthenticationError", "JSONDecodeError", "AttributeError",
                       "TypeError", "ValueError"},
             msg \in {<<"Test error">>, <<>>} }

ErrorCalls == { Call("handle_api_error", [e |-> e]) : e \in Exceptions }

\* flow records as the service lists them
FlowRecords ==
    { JDict("id" :> JStr(<<"f","1">>) @@ "name" :> JStr(<<"B","o","t">>) @@ "type" :> JStr(<<"C","H","A","T","F","L","O","W">>)
            @@ "flowData" :> TaskFlowValues[3].v["flowData"]),
      JDict("id" :> JStr(<<"f","2">>) @@ "name" :> JStr(<<"A","g","e","n","t">>) @@ "type" :> JStr(<<"A","G","E","N","T","F","L","O","W">>)
            @@ "deployed" :> JBool(TRUE) @@ "isPublic" :> JBool(TRUE)
            @@ "category" :> JStr(<<"a",";","b">>) @@ "updatedDate" :> JStr(<<"2","0","2","4","-","0","1","-","0","1">>)
            @@ "flowData" :> TaskFlowValues[2].v["flowData"]),
      JDict("id" :> JStr(<<"f","3">>) @@ "name" :> JStr(<<"O","l","d">>)),
      JDict("id" :> JStr(<<"f","4">>) @@ "type" :> JStr(<<"M","U","L","T","I","A","G","E","N","T">>)
            @@ "flowData" :> TaskFlowValues[1].v["flowData"]),
      JDict("id" :> JStr(<<"f","5">>)
            @@ "flowData" :> JText(JDict("nodes" :> JList(<<JNull>>)))) }

MaxFlows == 2

\* bodies whose documents are flows: a flow, a list of flows
FlowBodies == FlowRecords \cup { JList(fs) : fs \in SeqUpTo(FlowRecords, MaxFlows) }

\* the value of a variable, longer than the 50 characters shown
LongValue == JStr([i \in 1..51 |-> "k"])

\* bodies of the other endpoints, each of an unexpected shape for the
\* tools it is not meant for
OtherBodies ==
    { JNull, JNum(5), JBool(TRUE), JStr(<<"p","o","n","g">>), JList(<<>>), JDict(EmptyMap),
      JList(<<JStr(<<"x">>)>>), JList(<<JNull>>),
      JDict("text" :> JStr(<<"H","i">>) @@ "json" :> JDict("value" :> JNum(1))),
      JDict("text" :> JNull),
      JDict("json" :> JDict("value" :> JNum(1)) @@ "content" :> JStr(<<"c">>)),
      JDict("content" :> JStr(<<"c">>)),
      JDict("id" :> JStr(<<"f","1">>) @@ "name" :> JStr(<<"B","o","t">>)),
      JDict("numAdded" :> JNum(2)),
      JList(<< JDict("role" :> JStr(<<"u","s","e","r">>) @@ "content" :> JStr(<<"h","i">>)
                     @@ "createdDate" :> JStr(<<"2","0","2","4","-","0","1","-","0","1">>)),
               JDict("role" :> JStr(<<"a","p","i","M","e","s","s","a","g","e">>) @@ "content" :> JStr(<<"h","e","l","l","o">>)) >>),
      JList(<< JDict("role" :> JNull) >>),
      JList(<< JDict("content" :> JNull) >>),
      JList(<< JDict("name" :> JStr(<<"K","E","Y">>) @@ "value" :> LongValue),
               JDict("id" :> JStr(<<"a","1">>) @@ "name" :> JStr(<<"H","e","l","p","e","r">>)
                     @@ "description" :> JStr(<<"h","e","l","p","s">>) @@ "value" :> JNum(5)) >>),
      JDict("id" :> JStr(<<"a","1">>) @@ "name" :> JStr(<<"H","e","l","p","e","r">>)
            @@ "description" :> JStr(<<"h","e","l","p","s">>)
            @@ "tools" :> JList(<<JDict("type" :> JStr(<<"r","e","t","r","i","e","v","a","l">>))>>)
            @@ "loaders" :> JList(<<JDict("id" :> JStr(<<"l","1">>))>>)),
      JDict("tools" :> JStr(<<"t">>) @@ "loaders" :> JNum(5)),
      JDict("timeTaken" :> JNum(12)
            @@ "docs" :> JList(<< JDict("pageContent" :> JStr(<<"r","e","f","u","n","d"," ","p","o","l","i","c","y">>)
                                       @@ "metadata" :> JDict("source" :> JStr(<<"a",".","p","d","f">>))),
                                  JDict(EmptyMap) >>)),
      JDict("docs" :> JNull),
      JDict("docs" :> JDict("id" :> JNull)),
      JDict("docs" :> JList(<<JDict("pageContent" :> JNull)>>)),
      JDict("docs" :> JList(<<JDict("metadata" :> JStr(<<"m">>))>>)) }

\* the tools that never serialize the response they are given
ReadsFlows ==
    {"flowise_list_flows", "flowise_get_flow", "flowise_analyze_flow",
     "flowise_create_flow", "flowise_update_flow", "flowise_delete_flow", "flowise_ping",
     "flowise_delete_chat_history", "flowise_upsert_vector"}

\* what may come back for a request of a tool
Replies(tool) ==
    { OkReply(body) : body \in OtherBodies \cup (IF tool \in ReadsFlows THEN FlowBodies ELSE {}) }
    \cup { TextReply(<<"<","h","t","m","l",">">>), NoContentReply }
    \cup { StatusReply(status, text) : status \in ErrorStatuses, text \in ErrorTexts }
    \cup { FailedReply(type) : type \in {"ConnectTimeout", "ReadTimeout", "ConnectError",
                                         "ReadError"} }

(***************************************************************************)
(* Specification of the tools                                              *)
(***************************************************************************)
\* the statements of a tool up to its request
Request(c) ==
    LET params == c.params IN
    CASE c.tool = "flowise_list_flows" -> Sends(Req("GET", <<"chatflows">>, JNull, JNull))
      [] c.tool \in {"flowise_get_flow", "flowise_analyze_flow"} ->
            Sends(Req("GET", <<"chatflows/", params.flow_id>>, JNull, JNull))
      [] c.tool = "flowise_predict" ->
            Sends(Req("POST", <<"prediction/", params.flow_id>>, predict_payload(params), JNull))
      [] c.tool = "flowise_create_flow" ->
            Sends(Req("POST", <<"chatflows">>, create_payload(params), JNull))
      [] c.tool = "flowise_update_flow" ->
            IF ~Truthy(update_payload(params))
            THEN ReturnsEarly(PyText(<<"Error", ": No fields provided to update.">>))
            ELSE Sends(Req("PUT", <<"chatflows/", params.flow_id>>,
                           update_payload(params), JNull))
      [] c.tool = "flowise_delete_flow" ->
            Sends(Req("DELETE", <<"chatflows/", params.flow_id>>, JNull, JNull))
      [] c.tool = "flowise_get_chat_history" ->
            Sends(Req("GET", <<"chatmessage">>, JNull, chat_history_params(params)))
      [] c.tool = "flowise_list_variables" -> Sends(Req("GET", <<"variables">>, JNull, JNull))
      [] c.tool = "flowise_list_tools" -> Sends(Req("GET", <<"tools">>, JNull, JNull))
      [] c.tool = "flowise_ping" -> Sends(Req("GET", <<"ping">>, JNull, JNull))
      [] c.tool = "flowise_list_assistants" ->
            Sends(Req("GET", <<"assistants">>, JNull, JNull))
      [] c.tool = "flowise_get_assistant" ->
            Sends(Req("GET", <<"assistants/", params.assistant_id>>, JNull, JNull))
      [] c.tool = "flowise_delete_chat_history" ->
            Sends(Req("DELETE", <<"chatmessage/", params.flow_id>>, JNull,
                      delete_chat_history_params(params)))
      [] c.tool = "flowise_list_document_stores" ->
            Sends(Req("GET", <<"document-store/store">>, JNull, JNull))
      [] c.tool = "flowise_get_document_store" ->
            Sends(Req("GET", <<"document-store/store/", params.store_id>>, JNull, JNull))
      [] c.tool = "flowise_upsert_vector" ->
            Sends(Req("POST", <<"vector/upsert/", params.flow_id>>,
                      upsert_payload(params), JNull))
      [] c.tool = "flowise_query_vector_store" ->
            Sends(Req("POST", <<"document-store/vectorstore/query">>,
                      JDict("storeId" :> params.store_id @@ "query" :> params.query), JNull))

\* the statements of a tool from the response to the end of its try block
AfterResponse(c, response) ==
    LET params == c.params IN
    CASE c.tool = "flowise_list_flows" -> flowise_list_flows(params, response)
      [] c.tool = "flowise_get_flow" -> flowise_get_flow(params, response)
      [] c.tool = "flowise_predict" -> flowise_predict(params, response)
      [] c.tool = "flowise_analyze_flow" -> flowise_analyze_flow(params, response)
      [] c.tool = "flowise_create_flow" -> flowise_create_flow(params, response)
      [] c.tool = "flowise_update_flow" -> flowise_update_flow(params, response)
      [] c.tool = "flowise_delete_flow" -> flowise_delete_flow(params, response)
      [] c.tool = "flowise_get_chat_history" -> flowise_get_chat_history(params, response)
      [] c.tool = "flowise_list_variables" -> flowise_list_variables(params, response)
      [] c.tool = "flowise_list_tools" -> flowise_list_tools(params, response)
      [] c.tool = "flowise_ping" -> flowise_ping(params, response)
      [] c.tool = "flowise_list_assistants" -> flowise_list_assistants(params, response)
      [] c.tool = "flowise_get_assistant" -> flowise_get_assistant(params, response)
      [] c.tool = "flowise_delete_chat_history" ->
            flowise_delete_chat_history(params, response)
      [] c.tool = "flowise_list_document_stores" ->
            flowise_list_document_stores(params, response)
      [] c.tool = "flowise_get_document_store" ->
            flowise_get_document_store(params, response)
      [] c.tool = "flowise_upsert_vector" -> flowise_upsert_vector(params, response)
      [] c.tool = "flowise_query_vector_store" ->
            flowise_query_vector_store(params, response)

\* a tool from the reply r to its request on: make_api_request returns or
\* raises, the rest of the try block runs, the except clause catches
ToolResult(c, r) ==
    LET response == make_api_request(r) IN
    TryExcept(IF response.ok THEN AfterResponse(c, response.val) ELSE response)

InitTools ==
    /\ pc = "start"
    /\ node_type = Unset /\ category = Unset /\ arg_flow = Unset /\ arg_goal = Unset
    /\ outcome = Unset /\ arg_format = Unset /\ output = Unset
    /\ heap = Unset /\ task = Unset
    /\ call \in ToolCalls \cup ErrorCalls
    /\ requests = <<>>
    /\ reply = Unset
    /\ result = Unset

\* a tool runs up to its request and awaits the response
ToolSend ==
    /\ pc = "start"
    /\ call.tool \in ToolNames
    /\ Request(call).sent
    /\ requests' = Append(requests, Request(call).req)
    /\ pc' = "awaiting"
    /\ UNCHANGED <<call, reply, result>>
    /\ UNCHANGED <<analysisVars, taskVars>>

\* a tool returns before any request
ToolReturnEarly ==
    /\ pc = "start"
    /\ call.tool \in ToolNames
    /\ ~Request(call).sent
    /\ result' = TryExcept(Returned(Request(call).early))
    /\ pc' = "returned"
    /\ UNCHANGED <<call, requests, reply>>
    /\ UNCHANGED <<analysisVars, taskVars>>

\* the remote service answers, or the transport fails, and the tool ends
ToolReceive ==
    /\ pc = "awaiting"
    /\ \E r \in Replies(call.tool) :
          /\ reply' = r
          /\ result' = ToolResult(call, r)
    /\ pc' = "returned"
    /\ UNCHANGED <<call, requests>>
    /\ UNCHANGED <<analysisVars, taskVars>>

\* handle_api_error called on its own
HandleError ==
    /\ pc = "start"
    /\ call.tool = "handle_api_error"
    /\ result' = Returned(handle_api_error(call.params.e))
    /\ pc' = "returned"
    /\ UNCHANGED <<call, requests, reply>>
    /\ UNCHANGED <<analysisVars, taskVars>>

NextTools == ToolSend \/ ToolReturnEarly \/ ToolReceive \/ HandleError

SpecTools == InitTools /\ [][NextTools]_vars

(***************************************************************************)
(* Properties of the transport and the tools, checked under SpecTools      *)
(***************************************************************************)
\* handle_api_error has returned for the exception it was called with
ErrorHandled == pc = "returned" /\ call.tool = "handle_api_error"

\* the kind of an error: the status class of an HTTP status error, a
\* timeout, a connection failure, or any other exception
KindOf(e) ==
    IF e.type = "HTTPStatusError"
    THEN CASE e.status = 401 -> "authentication"
           [] e.status = 403 -> "permission"
           [] e.status = 404 -> "not found"
           [] e.status = 429 -> "rate limit"
           [] e.status \notin {401, 403, 404, 429} /\ e.status >= 500 -> "server"
           [] OTHER -> "status"
    ELSE IF e.type \in {"TimeoutException", "ConnectTimeout", "ReadTimeout"} THEN "timeout"
    ELSE IF e.type = "ConnectError" THEN "connect"
    ELSE "other"

\* the one message of each kind
MessageOf(e) ==
    CASE KindOf(e) = "authentication" ->
            <<"Error", ": Authentication failed. Please check your ", "FLOWISE_API_KEY",
              " environment variable.">>
      [] KindOf(e) = "permission" ->
            <<"Error", ": Permission denied. Your API key may not have access to this resource.">>
      [] KindOf(e) = "not found" ->
            <<"Error", ": Resource not found. Please verify the flow ID is correct.">>
      [] KindOf(e) = "rate limit" ->
            <<"Error", ": Rate limit exceeded. Please wait before making more requests.">>
      [] KindOf(e) = "server" ->
            <<"Error", ": Flowise server error (status ", e.status,
              "). Check if Flowise is running.">>
      [] KindOf(e) = "status" ->
            <<"Error", ": API request failed with status ", e.status, ": ", e.text>>
      [] KindOf(e) = "timeout" ->
            <<"Error", ": Request ", "timed out",
              ". The Flowise server may be overloaded or unreachable.">>
      [] KindOf(e) = "connect" ->
            <<"Error", ": ", "Could not connect",
              " to Flowise. Verify FLOWISE_BASE_URL and that Flowise is running.">>
      [] KindOf(e) = "other" -> <<"Error", ": ", e.type, ": ", e.msg>>

\* the part word is one of the parts of the message
Names(message, word) == \E i \in 1..Len(message.v) : message.v[i] = word

\* C25: handle_api_error maps every error to the one message of its kind:
\* status 401 to the authentication message naming FLOWISE_API_KEY, 403,
\* 404 and 429 to theirs, a status of 500 or more to the server-error
\* message, any other status to the generic status message, a timeout to
\* the timed-out message, a connection failure to the Could-not-connect
\* message, any other exception to Error: <type>: <text>; every message
\* starts with Error.
C25_ErrorMessageByKind ==
    ErrorHandled =>
        LET e == call.params.e IN
        /\ result.ok
        /\ result.val = PyText(MessageOf(e))
        /\ result.val.v[1] = "Error"
        /\ KindOf(e) = "authentication" => Names(result.val, "FLOWISE_API_KEY")
        /\ KindOf(e) = "timeout" => Names(result.val, "timed out")
        /\ KindOf(e) = "connect" => Names(result.val, "Could not connect")

\* a status above 500 has been handled and its message carries it
C25_Witness ==
    /\ ErrorHandled
    /\ call.params.e.type = "HTTPStatusError"
    /\ call.params.e.status = 503
    /\ result.val.v[3] = 503

\* a tool has ended after the remote service or the transport answered
\* its request
ToolAnswered == pc = "returned" /\ call.tool \in ToolNames /\ requests # <<>>

\* the httpx exception a reply stands for, if it is a failure
FailureOf(r) ==
    IF r.kind = "response" THEN HTTPStatusError(r.status, r.body.v)
    ELSE Exc(r.kind, <<"All connection attempts failed">>)

\* C26: when the remote service answers a tool's request with an HTTP
\* error status, or the connection fails, the tool returns the message
\* handle_api_error has for that kind of failure: the authentication
\* message for 401, the not-found message for 404, the Could-not-connect
\* message for a connection failure.
C26_ToolReturnsKindMessage ==
    ToolAnswered
    /\ \/ reply.kind = "response" /\ IsErrorStatus(reply.status)
       \/ reply.kind = "ConnectError"
    => /\ result.ok
       /\ result.val = PyText(MessageOf(FailureOf(reply)))

\* the remote service has answered 401 and the tool has returned the
\* generic message for the FlowiseClientError make_api_request raised
C26_Witness ==
    /\ ToolAnswered
    /\ reply.kind = "response" /\ reply.status = 401
    /\ result.ok
    /\ result.val.v[3] = "FlowiseClientError"

\* a tool has ended, with or without a request
ToolEnded == pc = "returned" /\ call.tool \in ToolNames

\* the outcomes of a request: a well-formed body, a body of another
\* shape, an HTTP error status, a timeout, a connection failure
WellFormedFor(tool, body) ==
    CASE tool \in {"flowise_list_flows"} ->
            body.t = "list" /\ \A i \in 1..Len(body.v) : body.v[i] \in FlowRecords
      [] tool \in {"flowise_get_flow", "flowise_analyze_flow", "flowise_create_flow",
                   "flowise_update_flow"} -> body \in FlowRecords
      [] OTHER -> body.t = "dict"

\* C27: every tool invocation ends by returning a string and never
\* propagates an exception, whatever the outcome of its request: a
\* well-formed body, a body of an unexpected shape, an HTTP error status,
\* a timeout or a connection failure.
C27_ToolsReturnStrings == ToolEnded => result.ok /\ IsPyStr(result.val)

\* a tool has met a body of an unexpected shape, which raised inside its
\* try block, and has returned the message of that exception
C27_Witness ==
    /\ ToolEnded /\ requests # <<>>
    /\ reply.kind = "response" /\ reply.status = 200
    /\ ~WellFormedFor(call.tool, reply.body)
    /\ result.ok /\ result.val.t = "text"
    /\ Len(result.val.v) >= 3
    /\ result.val.v[3] \in {"AttributeError", "TypeError"}

\* flowise_update_flow has ended
UpdateEnded == ToolEnded /\ call.tool = "flowise_update_flow"

\* the fields of an update that were given, under their names in the payload
UpdateFields == [name |-> "name", flow_data |-> "flowData", is_public |-> "isPublic",
                 category |-> "category"]
GivenFields(params) == { f \in DOMAIN UpdateFields : params[f] # JNull }

\* C28: flowise_update_flow called with none of name, flow_data, is_public
\* and category returns "Error: No fields provided to update." without
\* sending any request; with at least one field given, exactly one PUT
\* request is sent and its payload holds exactly the fields given, with
\* their values, is_public false included.
C28_UpdateSendsGivenFields ==
    UpdateEnded =>
        LET given == GivenFields(call.params) IN
        IF given = {}
        THEN /\ requests = <<>>
             /\ result = Returned(PyText(<<"Error", ": No fields provided to update.">>))
        ELSE /\ Len(requests) = 1
             /\ requests[1].method = "PUT"
             /\ requests[1].endpoint = <<"chatflows/", call.params.flow_id>>
             /\ DOMAIN requests[1].data.v = { UpdateFields[f] : f \in given }
             /\ \A f \in given : requests[1].data.v[UpdateFields[f]] = call.params[f]

\* an update that gives only is_public = false and an empty name has sent
\* both
C28_Witness ==
    /\ UpdateEnded
    /\ call.params.is_public = JBool(FALSE)
    /\ call.params.name = JStr(<<>>)
    /\ GivenFields(call.params) = {"is_public", "name"}
    /\ Len(requests) = 1
    /\ requests[1].data.v["isPublic"] = JBool(FALSE)

\* flowise_list_flows has ended on a list of flow records
FlowsListed ==
    /\ ToolAnswered /\ call.tool = "flowise_list_flows"
    /\ reply.kind = "response" /\ reply.status = 200 /\ reply.is_json
    /\ reply.body.t = "list"
    /\ \A i \in 1..Len(reply.body.v) : reply.body.v[i] \in FlowRecords

\* the ids of the flows a listing shows, in its order
ListedIds(text) ==
    CASE text.t = "json_tokens" ->
            LET flows == json_loads(text).val IN
            [i \in 1..Len(flows.v) |-> flows.v[i].v["id"]]
      [] text.t = "lines" ->
            LET ids == SelectSeq(text.v, LAMBDA line : line[1] = "- **ID**: ") IN
            [i \in 1..Len(ids) |-> ids[i][3]]
      [] OTHER -> <<>>

\* the type the listing reports for a flow
ListedType(flow) == Get(flow, "type", JStr(<<"C","H","A","T","F","L","O","W">>))

\* C29: flowise_list_flows with a flow_type filter T returns exactly the
\* flows the unfiltered listing shows with type T: a flow is kept if and
\* only if the type the listing reports for it, CHATFLOW when it has no
\* type field, equals T.
C29_FilterMatchesListing ==
    FlowsListed /\ call.params.flow_type # JNull =>
        LET shown == SelectSeq(reply.body.v,
                               LAMBDA flow : ListedType(flow) = call.params.flow_type)
        IN /\ result.ok
           /\ ListedIds(result.val) = [i \in 1..Len(shown) |-> Get(shown[i], "id", JNull)]

\* a flow without a type field, which the listing reports as CHATFLOW, has
\* been dropped by the filter CHATFLOW
C29_Witness ==
    /\ FlowsListed /\ call.params.flow_type = JStr(<<"C","H","A","T","F","L","O","W">>)
    /\ \E i \in 1..Len(reply.body.v) : "type" \notin DOMAIN reply.body.v[i].v
    /\ result.ok
    /\ ListedIds(result.val) = <<>>

\* flowise_predict has ended after its request was answered
PredictEnded == ToolAnswered /\ call.tool = "flowise_predict"

\* a value was given and is not empty
Given(x) == x # JNull /\ Truthy(x)

\* C30: flowise_predict sends overrideConfig only when a session id or an
\* override_config is given; the session id is sent as
\* overrideConfig.sessionId unless override_config has a sessionId of its
\* own, which wins.  From a mapping response it returns the text field
\* when present, else the json field serialized, else the whole response
\* serialized; any other response is returned as its string form.
C30_PredictPayloadAndResponse ==
    PredictEnded =>
        LET params == call.params
            payload == requests[1].data.v
            own == IF Given(params.override_config) THEN params.override_config.v
                   ELSE EmptyMap
        IN
        /\ Len(requests) = 1 /\ requests[1].method = "POST"
        /\ payload["question"] = params.question
        /\ "overrideConfig" \in DOMAIN payload
              <=> Given(params.session_id) \/ Given(params.override_config)
        /\ "overrideConfig" \in DOMAIN payload =>
              LET sent == payload["overrideConfig"].v IN
              /\ \A k \in DOMAIN own : k \in DOMAIN sent /\ sent[k] = own[k]
              /\ DOMAIN sent \subseteq DOMAIN own \cup {"sessionId"}
              /\ "sessionId" \notin DOMAIN own /\ Given(params.session_id)
                    => "sessionId" \in DOMAIN sent /\ sent["sessionId"] = params.session_id
              /\ "sessionId" \in DOMAIN sent
                    => "sessionId" \in DOMAIN own \/ Given(params.session_id)
        /\ reply.kind = "response" /\ ~IsErrorStatus(reply.status) =>
              LET response == make_api_request(reply).val IN
              /\ result.ok
              /\ IF response.t = "dict"
                 THEN IF "text" \in DOMAIN response.v
                      THEN result.val = PyStr(response.v["text"])
                      ELSE /\ result.val.t = "json_tokens"
                           /\ json_loads(result.val)
                                 = Return(IF "json" \in DOMAIN response.v
                                          THEN response.v["json"] ELSE response)
                 ELSE result.val = PyStr(response)

\* a session id was given together with an override_config that has a
\* sessionId of its own, and the response had both a text and a json field
C30_Witness ==
    /\ PredictEnded
    /\ call.params.session_id = JStr(<<"s","1">>)
    /\ requests[1].data.v["overrideConfig"].v["sessionId"] = JStr(<<"s","2">>)
    /\ reply.kind = "response" /\ reply.status = 200
    /\ reply.body.t = "dict"
    /\ DOMAIN reply.body.v = {"text", "json"}
    /\ result = Returned(JStr(<<"H","i">>))

====
